---------------------------- MODULE Spec2Model ----------------------------
(***************************************************************************)
(* HGEMM kernels of hip_wmma_samples: wmma_naive, wmma_shared,             *)
(* wmma_shared_warp_buf_vec, wmma_prefetch and wmma_opt_2.                 *)
(*                                                                         *)
(* One thread block is modelled as a set of warps.  A warp is the unit of  *)
(* scheduling (its lanes run in lockstep); warps interleave freely between *)
(* __syncthreads barriers.  Every index expression of the kernels is an    *)
(* operator over a configuration record, so the same translation runs on   *)
(* the configurations of the source (config_o2, ...) and on geometrically  *)
(* reduced ones (Reduced(...)) whose state space TLC can enumerate.        *)
(*                                                                         *)
(* Half-precision values are modelled exactly: a value is a formal sum of  *)
(* monomials (a bag), the elements of A and B are distinct indeterminates. *)
(***************************************************************************)
EXTENDS Integers, FiniteSets, Sequences, TLC

VARIABLES
    cfg,        \* the kernel's wmma_config (and which kernel it is)
    M, N, K,    \* kernel arguments
    blockIdx,   \* <<blockIdx.x, blockIdx.y>> of the modelled block
    block_row,  \* row of C (and A) where the block's tile starts
    block_col,  \* column of C (and B) where the block's tile starts
    junk,       \* what uninitialised registers / shared / output memory hold
    pc,         \* per warp: the next step of the kernel
    atbar,      \* per warp: waiting in __syncthreads
    syncs,      \* per warp: the __syncthreads calls it has reached, in order
    k_tile,     \* per warp: the K-loop variable
    cur,        \* per warp: which buffer current_a/current_b point to (0 or 1)
    chunk_idx,  \* per warp: epilogue loop variable of wmma_opt_2
    c_frags,    \* per thread: accumulator fragments
    reg_buf,    \* per thread: a_reg_buf / b_reg_buf of wmma_prefetch
    lds,        \* lds_mem, the block's shared memory
    rlog, wlog, \* shared-memory reads / writes since the last barrier
    C,          \* the output matrix in global memory
    cstores,    \* every store to C issued so far
    run, C_first, \* launch number and the output of the first launch
    host        \* the host-side call in progress (hgemm_cpu, verify_results), if any

vars == <<cfg, M, N, K, blockIdx, block_row, block_col, junk, pc, atbar, syncs, k_tile, cur,
          chunk_idx, c_frags, reg_buf, lds, rlog, wlog, C, cstores, run, C_first, host>>

\* What a launch fixes for the whole run of the block.
args == <<cfg, M, N, K, blockIdx, block_row, block_col, junk>>

-----------------------------------------------------------------------------
(* Configurations                                                          *)

\* wmma_config<...>: the derived members are computed as the structs do.
MkConfig(k, wt, wm, wn, tm, tn, bk, vw, nb) ==
    [kernel       |-> k,
     wmma_tile    |-> wt,
     warp_size    |-> 2 * wt,
     warps_m      |-> wm,
     warps_n      |-> wn,
     total_warps  |-> wm * wn,
     warp_tile_m  |-> tm,
     warp_tile_n  |-> tn,
     block_m      |-> wm * tm * wt,
     block_n      |-> wn * tn * wt,
     block_k      |-> bk,
     lds_stride_A |-> wm * tm * wt,
     lds_stride_B |-> wn * tn * wt,
     lds_size     |-> (wm * tm * wt) * bk + bk * (wn * tn * wt),
     vector_width |-> vw,
     buffers      |-> nb]

\* The configurations of the source.
config_o2  == MkConfig("wmma_opt_2", 16, 4, 4, 4, 4, 32, 16, 2)
config_wbv == MkConfig("wmma_shared_warp_buf_vec", 16, 4, 4, 4, 4, 32, 16, 2)
config_p   == MkConfig("wmma_prefetch", 16, 4, 4, 4, 4, 16, 16, 2)
config_s   == MkConfig("wmma_shared", 16, 8, 4, 1, 1, 64, 1, 1)
config_n   == MkConfig("wmma_naive", 16, 4, 4, 1, 1, 16, 1, 0)

\* The same configuration with a 2x2 MMA tile (so 4 lanes per warp, a vector of
\* 2 halves) and half as many warps and warp tiles per dimension; block_k keeps
\* its number of MMA sub-steps.  The block tile of Reduced(config_o2) fits in
\* shared memory at once; ReducedChunked keeps the warp tiles and a single MMA
\* sub-step instead, so that the epilogue of wmma_opt_2 runs in two chunks as
\* it does with config_o2.
ReducedChunked(c) ==
    MkConfig(c.kernel, 2, c.warps_m \div 2, c.warps_n \div 2, c.warp_tile_m, c.warp_tile_n,
             2, 2, c.buffers)

Reduced(c) ==
    MkConfig(c.kernel, 2,
             c.warps_m \div 2, c.warps_n \div 2,
             IF c.warp_tile_m > 1 THEN c.warp_tile_m \div 2 ELSE 1,
             IF c.warp_tile_n > 1 THEN c.warp_tile_n \div 2 ELSE 1,
             (c.block_k \div c.wmma_tile) * 2,
             IF c.vector_width > 1 THEN 2 ELSE 1,
             c.buffers)

SourceConfigs == {config_o2, config_wbv, config_p, config_s, config_n}

DoubleBuffered == {"wmma_opt_2", "wmma_shared_warp_buf_vec", "wmma_prefetch"}

\* (A plausible slip: a launcher that starts one row of warps only.)
blockDim_warps_m(c) == <<c.warp_size * c.warps_m, 1>>

\* blockDim of each launcher.
blockDim(c) ==
    IF c.kernel \in {"wmma_naive", "wmma_shared"}
    THEN <<c.warp_size * c.warps_m, c.warps_n>>
    ELSE <<c.warp_size * c.total_warps, 1>>

num_threads(c) == blockDim(c)[1] * blockDim(c)[2]
half_block(c)  == blockDim(c)[1] \div 2

\* (A plausible slip: the grid sized by rounding down.)
floor_div(a, b) == a \div b
ceil_div(a, b) == (a + b - 1) \div b

Threads(c) == 0 .. num_threads(c) - 1
Warps(c)   == 0 .. c.total_warps - 1
Lanes(c, w) == {t \in Threads(c) : t \div c.warp_size = w}

-----------------------------------------------------------------------------
(* Exact half values                                                       *)

\* A value is a bag of monomials <<a, b>>: a > 0 names element a-1 of A's
\* buffer, b > 0 element b-1 of B's buffer, 0 the missing factor.
Zero   == [m \in {} |-> 0]
Poison == [m \in {<<-1, -1>>} |-> 1]    \* an unknown (uninitialised) value
ElemA(p) == [m \in {<<p + 1, 0>>} |-> 1]
ElemB(q) == [m \in {<<0, q + 1>>} |-> 1]

VAdd(x, y) ==
    [m \in (DOMAIN x) \cup (DOMAIN y) |->
        (IF m \in DOMAIN x THEN x[m] ELSE 0) + (IF m \in DOMAIN y THEN y[m] ELSE 0)]

IsElemA(x) == \E m \in DOMAIN x : DOMAIN x = {m} /\ x[m] = 1 /\ m[1] > 0 /\ m[2] = 0
IsElemB(x) == \E m \in DOMAIN x : DOMAIN x = {m} /\ x[m] = 1 /\ m[1] = 0 /\ m[2] > 0

\* The product of an element of an A fragment with one of a B fragment.
VMul(x, y) ==
    IF x = Zero \/ y = Zero THEN Zero
    ELSE IF IsElemA(x) /\ IsElemB(y)
         THEN [m \in {<<(CHOOSE a \in DOMAIN x : TRUE)[1],
                        (CHOOSE b \in DOMAIN y : TRUE)[2]>>} |-> 1]
         ELSE Poison

\* sum over k < n of a[k] * b[k]
RECURSIVE Dot(_, _, _)
Dot(a, b, n) == IF n = 0 THEN Zero ELSE VAdd(Dot(a, b, n - 1), VMul(a[n - 1], b[n - 1]))

-----------------------------------------------------------------------------
(* Global memory                                                           *)

\* Matrix layouts the kernels are written for: wmma_naive takes A row-major
\* and B column-major, the others A column-major and B row-major.
\* (A plausible slip: every kernel taken to read A column-major.)
AddrA_col_major(c, row, k) == k * M + row
AddrA(c, row, k) == IF c.kernel = "wmma_naive" THEN row * K + k ELSE k * M + row
AddrB(c, k, col) == IF c.kernel = "wmma_naive" THEN col * K + k ELSE k * N + col

\* A load from A or B.  A load outside the allocation has no defined value.
LoadGlobalA(c, row, k) ==
    LET p == AddrA(c, row, k) IN IF p >= 0 /\ p < M * K THEN ElemA(p) ELSE junk
LoadGlobalB(c, k, col) ==
    LET q == AddrB(c, k, col) IN IF q >= 0 /\ q < K * N THEN ElemB(q) ELSE junk

\* What hgemm_cpu computes for C(i, j) on the layouts of the kernel.
hgemm_cpu(c, i, j) ==
    [m \in {<<AddrA(c, i, k) + 1, AddrB(c, k, j) + 1>> : k \in 0 .. K - 1} |-> 1]

-----------------------------------------------------------------------------
(* Thread and block identity                                               *)

threadIdx_x(c, t) == t % blockDim(c)[1]
threadIdx_y(c, t) == t \div blockDim(c)[1]

warp_id(c, t) ==
    IF c.kernel = "wmma_shared"
    THEN threadIdx_y(c, t) * (blockDim(c)[1] \div c.warp_size)
             + threadIdx_x(c, t) \div c.warp_size
    ELSE t \div c.warp_size

half_warp(c)       == c.warp_size \div 2
half_warp_id(c, t) == (threadIdx_x(c, t) % c.warp_size) \div half_warp(c)
half_lane(c, t)    == threadIdx_x(c, t) % half_warp(c)
\* (A plausible slip: the chunk index taken from the thread id itself.)
cid_tid(c, t)      == t
cid(c, t)          == t % half_block(c)

\* Origin of this warp's tiles inside the block tile.
\* (A plausible slip: the warp's column taken to be its id.)
warp_n_base_by_id(c, t) ==
    IF c.kernel = "wmma_shared"
    THEN warp_id(c, t) * c.wmma_tile
    ELSE warp_id(c, t) * c.warp_tile_n * c.wmma_tile
warp_m_base(c, t) ==
    IF c.kernel = "wmma_shared"
    THEN (warp_id(c, t) % c.warps_m) * c.wmma_tile
    ELSE (warp_id(c, t) \div c.warps_n) * c.warp_tile_m * c.wmma_tile
warp_n_base(c, t) ==
    IF c.kernel = "wmma_shared"
    THEN (warp_id(c, t) \div c.warps_m) * c.wmma_tile
    ELSE (warp_id(c, t) % c.warps_n) * c.warp_tile_n * c.wmma_tile

\* (A plausible slip: the guard around the body tests the warp's row offset.)
in_tile_m(c, w) == warp_m_base(c, w * c.warp_size) < c.block_n

\* wmma_shared wraps its whole body, barriers included, in
\* if(warp_n_offset < block_n); the other kernels have no such guard.
in_tile(c, w) == c.kernel = "wmma_shared" => warp_n_base(c, w * c.warp_size) < c.block_n

\* Launch grid of each hgemm_gpu.
grid_m(c, m) == ceil_div(m, c.block_m)
grid_n(c, n) == ceil_div(n, c.block_n)
grid_dim(c, m, n) ==
    IF c.kernel = "wmma_opt_2" THEN <<grid_m(c, m) * grid_n(c, n), 1>>
    ELSE <<grid_m(c, m), grid_n(c, n)>>

\* Hilbert curve: the cell of a 2^k x 2^k square at distance d along the curve.
RECURSIVE HilbertD2XY(_, _, _, _, _)
HilbertD2XY(n, s, t, x, y) ==
    IF s >= n THEN <<x, y>>
    ELSE LET rx == (t \div 2) % 2
             ry == (t + rx) % 2
             xr == IF ry = 0 /\ rx = 1 THEN s - 1 - x ELSE x
             yr == IF ry = 0 /\ rx = 1 THEN s - 1 - y ELSE y
             x2 == IF ry = 0 THEN yr ELSE xr
             y2 == IF ry = 0 THEN xr ELSE yr
         IN HilbertD2XY(n, 2 * s, t \div 4, x2 + s * rx, y2 + s * ry)

RECURSIVE NextPow2(_, _)
NextPow2(p, n) == IF p >= n THEN p ELSE NextPow2(2 * p, n)

\* (A plausible slip: the curve is followed over the padded square, but the
\* cells outside the grid are not skipped.)
HilbertNoDiscard(c, n, d, left, gm, gn) ==
    LET xy == HilbertD2XY(n, 1, left, 0, 0)
    IN <<xy[1] * c.block_m, xy[2] * c.block_n>>

\* The tile_id-th cell of the curve over the padded square that lies in the
\* gm x gn grid, as <<block_row, block_col>>.
RECURSIVE HilbertWalk(_, _, _, _, _, _)
HilbertWalk(c, n, d, left, gm, gn) ==
    LET xy == HilbertD2XY(n, 1, d, 0, 0)
        in_grid == xy[1] < gm /\ xy[2] < gn
    IN IF d >= n * n THEN <<0, 0>>
       ELSE IF in_grid /\ left = 0 THEN <<xy[1] * c.block_m, xy[2] * c.block_n>>
       ELSE HilbertWalk(c, n, d + 1, IF in_grid THEN left - 1 ELSE left, gm, gn)

hilbert_tile_mapping(c, tile_id, gm, gn) ==
    HilbertWalk(c, NextPow2(1, IF gm > gn THEN gm ELSE gn), 0, tile_id, gm, gn)

\* <<block_row, block_col>> as the kernel derives them from blockIdx.
block_origin(c, bidx, m, n) ==
    IF c.kernel = "wmma_opt_2"
    THEN hilbert_tile_mapping(c, bidx[1], grid_m(c, m), grid_n(c, n))
    ELSE <<bidx[1] * c.block_m, bidx[2] * c.block_n>>

-----------------------------------------------------------------------------
(* Cooperative tile loads of the double-buffered kernels                   *)

\* lds_mem is partitioned into buffer b's A region and B region.
a_tiles(c, b) == b * c.lds_size
b_tiles(c, b) == b * c.lds_size + c.block_m * c.block_k

\* for(i = cid * vector_width; i < n; i += half_block * vector_width)
\* (A plausible slip: the loop started at cid instead of cid * vector_width.)
VecIters_from_cid(c, t, n) ==
    {i \in 0 .. n - 1 : i >= cid(c, t)
                        /\ (i - cid(c, t)) % (half_block(c) * c.vector_width) = 0}
VecIters(c, t, n) ==
    {i \in 0 .. n - 1 : i >= cid(c, t) * c.vector_width
                        /\ (i - cid(c, t) * c.vector_width)
                               % (half_block(c) * c.vector_width) = 0}

local_idx(c, i) == (i \div c.vector_width) \div half_block(c)

\* The k index the range checks of the next-slice load use.  wmma_prefetch
\* checks k_tile + col although it reads through next_A / next_B.
next_check_k(c, kt) == IF c.kernel = "wmma_prefetch" THEN kt ELSE kt + c.block_k

\* A vector of A: col = i / block_m, row = i % block_m.
A_full(c, i, kchk) ==
    (block_row + (i % c.block_m) + c.vector_width - 1) < M /\ kchk + (i \div c.block_m) < K
\* (A plausible slip: the element-wise branch without the row test.)
A_elem_no_row_test(c, i, v, kchk) == kchk + (i \div c.block_m) < K
A_elem(c, i, v, kchk) ==
    block_row + (i % c.block_m) + v < M /\ kchk + (i \div c.block_m) < K
\* A vector of B: row = i / block_n, col = i % block_n.
\* (A plausible slip: the full-vector branch of B without the test against K.)
B_full_no_k_test(c, i, kchk) == (block_col + (i % c.block_n) + c.vector_width - 1) < N
B_full(c, i, kchk) ==
    kchk + (i \div c.block_n) < K /\ (block_col + (i % c.block_n) + c.vector_width - 1) < N
B_elem(c, i, v, kchk) ==
    kchk + (i \div c.block_n) < K /\ block_col + (i % c.block_n) + v < N

\* Whether element v of vector i is read from global memory: always by the
\* full-vector branch; by the element-wise branch where the kernel has one.
A_read(c, i, v, kchk) ==
    A_full(c, i, kchk) \/ (c.kernel # "wmma_prefetch" /\ A_elem(c, i, v, kchk))
B_read(c, i, v, kchk) ==
    B_full(c, i, kchk) \/ (c.kernel # "wmma_prefetch" /\ B_elem(c, i, v, kchk))

\* Global reads of thread t loading the A / B slice at kp: <<matrix, row, col,
\* whether it is part of a full-vector read>>.
ReadsA(c, t, kp, kchk) ==
    {<<"A", block_row + (i % c.block_m) + v, kp + (i \div c.block_m), A_full(c, i, kchk)>> :
        <<i, v>> \in {x \in VecIters(c, t, c.block_m * c.block_k) \X (0 .. c.vector_width - 1) :
                         A_read(c, x[1], x[2], kchk)}}
ReadsB(c, t, kp, kchk) ==
    {<<"B", kp + (i \div c.block_n), block_col + (i % c.block_n) + v, B_full(c, i, kchk)>> :
        <<i, v>> \in {x \in VecIters(c, t, c.block_k * c.block_n) \X (0 .. c.vector_width - 1) :
                         B_read(c, x[1], x[2], kchk)}}

\* Shared-memory writes <<tid, offset, value>> of thread t loading the A / B slice
\* at kp straight into the tile at dst (wmma_shared_warp_buf_vec, wmma_opt_2).
StageA(c, t, dst, kp, kchk) ==
    {<<t, dst + (i \div c.block_m) * c.lds_stride_A + (i % c.block_m) + v,
       IF A_read(c, i, v, kchk)
       THEN LoadGlobalA(c, block_row + (i % c.block_m) + v, kp + (i \div c.block_m))
       ELSE Zero>> :
        <<i, v>> \in VecIters(c, t, c.block_m * c.block_k) \X (0 .. c.vector_width - 1)}
StageB(c, t, dst, kp, kchk) ==
    {<<t, dst + (i \div c.block_n) * c.lds_stride_B + (i % c.block_n) + v,
       IF B_read(c, i, v, kchk)
       THEN LoadGlobalB(c, kp + (i \div c.block_n), block_col + (i % c.block_n) + v)
       ELSE Zero>> :
        <<i, v>> \in VecIters(c, t, c.block_k * c.block_n) \X (0 .. c.vector_width - 1)}

\* wmma_prefetch: a_reg_buf / b_reg_buf after the load of the slice at kp.  A
\* vector that is not entirely in range leaves its register as it was.
RegSlots(c) ==
    (0 .. ceil_div((c.block_m * c.block_k) \div c.vector_width, num_threads(c)) - 1)
        \X (0 .. c.vector_width - 1)
RegLoadA(c, t, old, kp, kchk) ==
    [s \in RegSlots(c) |->
        IF \E i \in VecIters(c, t, c.block_m * c.block_k) :
               local_idx(c, i) = s[1] /\ A_full(c, i, kchk)
        THEN LET i == CHOOSE j \in VecIters(c, t, c.block_m * c.block_k) :
                          local_idx(c, j) = s[1] /\ A_full(c, j, kchk)
             IN LoadGlobalA(c, block_row + (i % c.block_m) + s[2], kp + (i \div c.block_m))
        ELSE old[s]]
RegLoadB(c, t, old, kp, kchk) ==
    [s \in RegSlots(c) |->
        IF \E i \in VecIters(c, t, c.block_k * c.block_n) :
               local_idx(c, i) = s[1] /\ B_full(c, i, kchk)
        THEN LET i == CHOOSE j \in VecIters(c, t, c.block_k * c.block_n) :
                          local_idx(c, j) = s[1] /\ B_full(c, j, kchk)
             IN LoadGlobalB(c, kp + (i \div c.block_n), block_col + (i % c.block_n) + s[2])
        ELSE old[s]]

\* wmma_prefetch: the stores of the registers to the tile at dst.  A register
\* index beyond the array reads an unknown value.
RegValue(reg, s) == IF s \in DOMAIN reg THEN reg[s] ELSE junk
RegStoreA(c, t, reg, dst) ==
    {<<t, dst + (i \div c.block_m) * c.lds_stride_A + (i % c.block_m) + v,
       RegValue(reg, <<local_idx(c, i), v>>)>> :
        <<i, v>> \in VecIters(c, t, c.block_k * c.block_n) \X (0 .. c.vector_width - 1)}
RegStoreB(c, t, reg, dst) ==
    {<<t, dst + (i \div c.block_n) * c.lds_stride_B + (i % c.block_n) + v,
       RegValue(reg, <<local_idx(c, i), v>>)>> :
        <<i, v>> \in VecIters(c, t, c.block_k * c.block_n) \X (0 .. c.vector_width - 1)}

\* Shared memory after the writes W (a set of <<tid, offset, value>>).
Written(mem, W) ==
    [o \in DOMAIN mem |->
        IF \E x \in W : x[2] = o THEN (CHOOSE x \in W : x[2] = o)[3] ELSE mem[o]]

-----------------------------------------------------------------------------
(* Fragments and the MMA                                                   *)

\* Indices of the accumulator elements a lane holds: c_frags[wm][wn][2 * e].
FragIdx(c) == (0 .. c.warp_tile_m - 1) \X (0 .. c.warp_tile_n - 1)
                  \X (0 .. c.wmma_tile \div 2 - 1)

\* Offsets of a_frag[wm][i] / b_frag[wn][i] of thread t at sub-step k_offset.
a_frag_src(c, t, ca, k_offset, wm, i) ==
    ca + k_offset * c.lds_stride_A + (warp_m_base(c, t) + wm * c.wmma_tile + half_lane(c, t))
       + i * c.lds_stride_A
b_frag_src(c, t, cb, k_offset, wn, i) ==
    cb + k_offset * c.lds_stride_B + (warp_n_base(c, t) + wn * c.wmma_tile + half_lane(c, t))
       + i * c.lds_stride_B

\* A read of shared memory; beyond lds_mem the value is unknown.
LdsRead(mem, o) == IF o \in DOMAIN mem THEN mem[o] ELSE junk

a_frag(c, mem, t, ca, k_offset, wm) ==
    [i \in 0 .. c.wmma_tile - 1 |-> LdsRead(mem, a_frag_src(c, t, ca, k_offset, wm, i))]
b_frag(c, mem, t, cb, k_offset, wn) ==
    [i \in 0 .. c.wmma_tile - 1 |-> LdsRead(mem, b_frag_src(c, t, cb, k_offset, wn, i))]

\* Shared-memory offsets thread t reads in one K-step.
FragReads(c, t, ca, cb) ==
    {a_frag_src(c, t, ca, ko, wm, i) :
        <<ko, wm, i>> \in {k \in 0 .. c.block_k - 1 : k % c.wmma_tile = 0}
                             \X (0 .. c.warp_tile_m - 1) \X (0 .. c.wmma_tile - 1)}
    \cup
    {b_frag_src(c, t, cb, ko, wn, i) :
        <<ko, wn, i>> \in {k \in 0 .. c.block_k - 1 : k % c.wmma_tile = 0}
                             \X (0 .. c.warp_tile_n - 1) \X (0 .. c.wmma_tile - 1)}

\* __builtin_amdgcn_wmma_f16_16x16x16_f16_w32(a, b, c, false): element 2e of
\* the result in lane t is row 2e + half_warp_id, column half_lane of c + a*b,
\* where row r of a is the a-fragment of lane r of the warp and column half_lane
\* of b is the lane's own b-fragment.
wmma_f16(c, afrag, bfrag, acc, t, e) ==
    LET r == 2 * e + half_warp_id(c, t)
        w0 == t - (threadIdx_x(c, t) % c.warp_size)
    IN VAdd(acc, Dot(afrag[w0 + r], bfrag[t], c.wmma_tile))

\* c_frags[wm][wn][2e] of thread t after the sub-steps k_offset, ... of one
\* K-step on the current tiles.
\* (A plausible slip: only the first 16-wide sub-step of the slice multiplied.)
MulTile_first_substep(c, mem, ca, cb, t, x, acc, k_offset) ==
    wmma_f16(c,
             [l \in Lanes(c, warp_id(c, t)) |-> a_frag(c, mem, l, ca, k_offset, x[1])],
             [l \in Lanes(c, warp_id(c, t)) |-> b_frag(c, mem, l, cb, k_offset, x[2])],
             acc, t, x[3])

RECURSIVE MulTile(_, _, _, _, _, _, _, _)
MulTile(c, mem, ca, cb, t, x, acc, k_offset) ==
    IF k_offset >= c.block_k THEN acc
    ELSE MulTile(c, mem, ca, cb, t, x,
                 wmma_f16(c,
                          [l \in Lanes(c, warp_id(c, t)) |-> a_frag(c, mem, l, ca, k_offset, x[1])],
                          [l \in Lanes(c, warp_id(c, t)) |-> b_frag(c, mem, l, cb, k_offset, x[2])],
                          acc, t, x[3]),
                 k_offset + c.wmma_tile)

-----------------------------------------------------------------------------
(* Stores to C                                                             *)

\* C after the stores of the sequence S are performed in order: every address
\* holds the value of the last store issued to it.  A store whose guard is
\* false is not issued; one beyond the allocation of C leaves C as it is (it
\* is recorded in cstores).
StoreAll(mem, S) ==
    [a \in DOMAIN mem |->
        LET H == {n \in DOMAIN S : S[n].guard /\ S[n].addr = a}
        IN IF H = {} THEN mem[a]
           ELSE S[CHOOSE n \in H : \A m \in H : m <= n].val]

Issued(S) == {<<S[n].tid, S[n].addr, S[n].row, S[n].col>> : n \in {m \in DOMAIN S : S[m].guard}}

\* The n-th lane of warp w in the order the hardware commits the lanes of
\* one store instruction (either direction).
LaneAt(c, w, n, rev) == w * c.warp_size + (IF rev THEN c.warp_size - 1 - n ELSE n)

\* The guard of the direct write-back of wmma_shared_warp_buf_vec and
\* wmma_prefetch, and that of wmma_shared.
writeback_guard(c, t, wm, wn, row) ==
    IF c.kernel = "wmma_shared"
    THEN block_row + warp_m_base(c, t) + row < M
         /\ block_col + warp_n_base(c, t) + half_lane(c, t) < N
    ELSE block_row + warp_m_base(c, t) + row < M
         /\ block_col + (wn * c.wmma_tile + half_lane(c, t)) < N

\* The stores of warp w's write-back in program order: for wm, for wn, for i,
\* the lanes.  row and col are the coordinates of the element in C.
WritebackStores(c, w, frags, rev) ==
    [n \in 1 .. c.warp_tile_m * c.warp_tile_n * (c.wmma_tile \div 2) * c.warp_size |->
        LET q   == n - 1
            t   == LaneAt(c, w, q % c.warp_size, rev)
            i   == (q \div c.warp_size) % (c.wmma_tile \div 2)
            wn  == (q \div (c.warp_size * (c.wmma_tile \div 2))) % c.warp_tile_n
            wm  == q \div (c.warp_size * (c.wmma_tile \div 2) * c.warp_tile_n)
            row == i * 2 + half_warp_id(c, t)
            n_offset == wn * c.wmma_tile + half_lane(c, t)
        IN [tid   |-> t,
            guard |-> writeback_guard(c, t, wm, wn, row),
            addr  |-> (block_row * N + block_col) + (warp_m_base(c, t) * N + warp_n_base(c, t))
                          + wm * c.wmma_tile * N + row * N + n_offset,
            row   |-> block_row + warp_m_base(c, t) + wm * c.wmma_tile + row,
            col   |-> block_col + warp_n_base(c, t) + n_offset,
            val   |-> frags[t][<<wm, wn, i>>]]]

-----------------------------------------------------------------------------
(* Epilogue of wmma_opt_2                                                  *)

total_tile_elements(c) == c.block_m * c.block_n
max_shared_elements(c) == 2 * c.lds_size
needs_chunking(c)      == total_tile_elements(c) > max_shared_elements(c)
\* (A plausible slip: the tile is restaged whole, whatever the capacity.)
rows_per_chunk_whole(c) == c.block_m
rows_per_chunk(c) ==
    IF needs_chunking(c) THEN max_shared_elements(c) \div c.block_n ELSE c.block_m

row_end(c, row_start) ==
    IF row_start + rows_per_chunk(c) < c.block_m THEN row_start + rows_per_chunk(c)
    ELSE c.block_m
chunk_height(c, row_start) == row_end(c, row_start) - row_start

\* Step 1: writes <<tid, offset in c_tile, value>> of thread t for the chunk.
FragsToTile(c, t, frags, row_start) ==
    {<<t,
       ((warp_m_base(c, t) + x[1] * c.wmma_tile - row_start) + x[3] * 2 + half_warp_id(c, t))
           * c.block_n
         + (warp_n_base(c, t) + x[2] * c.wmma_tile) + half_lane(c, t),
       frags[t][x]>> :
        x \in {y \in FragIdx(c) :
                  ~ (warp_m_base(c, t) + y[1] * c.wmma_tile < row_start
                     \/ warp_m_base(c, t) + y[1] * c.wmma_tile >= row_end(c, row_start))}}

\* Step 2: for(i = tid * vector_width; i < chunk_height * block_n;
\*             i += num_threads * vector_width)
TileIters(c, t, row_start) ==
    {i \in 0 .. chunk_height(c, row_start) * c.block_n - 1 :
        i >= t * c.vector_width
        /\ (i - t * c.vector_width) % (num_threads(c) * c.vector_width) = 0}

C_full(c, i, row_start) ==
    block_row + row_start + (i \div c.block_n) < M
    /\ block_col + (i % c.block_n) + c.vector_width - 1 < N
\* (A plausible slip: the element-wise branch without the test of the column.)
C_elem_no_col_test(c, i, v, row_start) == block_row + row_start + (i \div c.block_n) < M
C_elem(c, i, v, row_start) ==
    block_row + row_start + (i \div c.block_n) < M /\ block_col + (i % c.block_n) + v < N

\* The stores of warp w in step 2, in program order.
MaxTileIters(c) == ceil_div(rows_per_chunk(c) * c.block_n, num_threads(c) * c.vector_width)
TileStores(c, w, mem, row_start, rev) ==
    [n \in 1 .. MaxTileIters(c) * c.vector_width * c.warp_size |->
        LET q == n - 1
            t == LaneAt(c, w, q % c.warp_size, rev)
            v == (q \div c.warp_size) % c.vector_width
            i == t * c.vector_width
                   + (q \div (c.warp_size * c.vector_width)) * num_threads(c) * c.vector_width
            row_local == i \div c.block_n
            col_local == i % c.block_n
        IN [tid   |-> t,
            guard |-> i < chunk_height(c, row_start) * c.block_n
                      /\ (C_full(c, i, row_start) \/ C_elem(c, i, v, row_start)),
            addr  |-> (block_row * N + block_col) + (row_start + row_local) * N + col_local + v,
            row   |-> block_row + row_start + row_local,
            col   |-> block_col + col_local + v,
            src   |-> row_local * c.block_n + col_local + v,
            v     |-> v,
            vec   |-> i < chunk_height(c, row_start) * c.block_n /\ C_full(c, i, row_start),
            val   |-> LdsRead(mem, row_local * c.block_n + col_local + v)]]

-----------------------------------------------------------------------------
(* Tile load of wmma_shared                                                *)

\* for(i = tid; i < n; i += num_threads)
ElemIters(c, t, n) == {i \in 0 .. n - 1 : i >= t /\ (i - t) % num_threads(c) = 0}

\* A_in without the test of the row against M.
A_in_no_row_test(c, i, kt) == kt + (i \div c.block_m) < K

A_in(c, i, kt) == block_row + (i % c.block_m) < M /\ kt + (i \div c.block_m) < K
B_in(c, i, kt) == kt + (i \div c.block_n) < K /\ block_col + (i % c.block_n) < N

TileA(c, t, kt) ==
    {<<t, (i \div c.block_m) * c.lds_stride_A + (i % c.block_m),
       IF A_in(c, i, kt)
       THEN LoadGlobalA(c, block_row + (i % c.block_m), kt + (i \div c.block_m)) ELSE Zero>> :
        i \in ElemIters(c, t, c.block_m * c.block_k)}
TileB(c, t, kt) ==
    {<<t, c.block_m * c.block_k + (i \div c.block_n) * c.lds_stride_B + (i % c.block_n),
       IF B_in(c, i, kt)
       THEN LoadGlobalB(c, kt + (i \div c.block_n), block_col + (i % c.block_n)) ELSE Zero>> :
        i \in ElemIters(c, t, c.block_k * c.block_n)}
TileReads(c, t, kt) ==
    {<<"A", block_row + (i % c.block_m), kt + (i \div c.block_m), FALSE>> :
        i \in {j \in ElemIters(c, t, c.block_m * c.block_k) : A_in(c, j, kt)}}
    \cup
    {<<"B", kt + (i \div c.block_n), block_col + (i % c.block_n), FALSE>> :
        i \in {j \in ElemIters(c, t, c.block_k * c.block_n) : B_in(c, j, kt)}}

-----------------------------------------------------------------------------
(* One thread block of a double-buffered kernel                            *)

MaxBlocks == 2   \* launches of up to MaxBlocks x MaxBlocks blocks
MaxKSteps == 3   \* up to MaxKSteps iterations of the K loop

\* Matrix dimensions: a single row / column, a ragged vector, one full block,
\* and g blocks of which the last holds a single row / column.
Dims(b, v) == <<1, v + 1, b>> \o [g \in 1 .. MaxBlocks - 1 |-> b * g + 1]
\* K: a single element, one full slice, and s slices of which the last holds
\* a single element.
KDims(bk) == <<1, bk>> \o [s \in 1 .. MaxKSteps - 1 |-> bk * s + 1]

\* The shapes <<M, N, K>> a kernel is launched on: the dimensions paired
\* along the diagonal (M and N ragged, aligned or multi-block together) and
\* along the anti-diagonal (M small where N is large and conversely), K running
\* through KDims.
Shapes(c) ==
    LET D  == Dims(c.block_m, c.vector_width)
        E  == Dims(c.block_n, c.vector_width)
        KS == KDims(c.block_k)
    IN {<<D[i], E[i], KS[((i - 1) % Len(KS)) + 1]>> : i \in DOMAIN D}
       \cup {<<D[i], E[Len(E) + 1 - i], KS[((i + 1) % Len(KS)) + 1]>> : i \in DOMAIN D}

Values == {Zero, Poison}

Blocks(c, m, n) == (0 .. grid_dim(c, m, n)[1] - 1) \X (0 .. grid_dim(c, m, n)[2] - 1)

\* The state of a block when the kernel starts.
Launch(c) ==
    /\ pc = [w \in Warps(c) |-> IF c.kernel \in DoubleBuffered THEN "prologue"
                                ELSE IF in_tile(c, w) THEN "load" ELSE "done"]
    /\ atbar = [w \in Warps(c) |-> FALSE]
    /\ syncs = [w \in Warps(c) |-> <<>>]
    /\ k_tile = [w \in Warps(c) |-> 0]
    /\ cur = [w \in Warps(c) |-> 0]
    /\ chunk_idx = [w \in Warps(c) |-> 0]
    /\ c_frags = [t \in Threads(c) |-> [x \in FragIdx(c) |-> Zero]]
    /\ reg_buf = [t \in Threads(c) |->
                     IF c.kernel = "wmma_prefetch" THEN [s \in RegSlots(c) |-> junk] ELSE <<>>]
    /\ lds = [o \in 0 .. c.buffers * c.lds_size - 1 |-> junk]
    /\ rlog = {} /\ wlog = {}
    /\ cstores = {}

InitOf(S, J) ==
    /\ cfg \in S
    /\ \E sh \in Shapes(cfg) : M = sh[1] /\ N = sh[2] /\ K = sh[3]
    /\ blockIdx \in Blocks(cfg, M, N)
    /\ block_row = block_origin(cfg, blockIdx, M, N)[1]
    /\ block_col = block_origin(cfg, blockIdx, M, N)[2]
    /\ junk \in J
    /\ Launch(cfg)
    /\ C = [a \in 0 .. M * N - 1 |-> junk]
    /\ run = 1 /\ C_first = <<>> /\ host = <<>>

Init ==
    InitOf({Reduced(config_o2), ReducedChunked(config_o2), Reduced(config_wbv),
            Reduced(config_p)}, {Poison})

has_next(w) == k_tile[w] + cfg.block_k < K
\* (A plausible slip: the next slice written into the buffer being read.)
same_buf(w) == cur[w]
next_buf(w) == 1 - cur[w]

\* Initial load of the first slice into buffer 0, then __syncthreads.
PrologueRegs(t) ==
    IF cfg.kernel # "wmma_prefetch" THEN reg_buf[t]
    ELSE IF t < half_block(cfg) THEN RegLoadA(cfg, t, reg_buf[t], 0, 0)
    ELSE RegLoadB(cfg, t, reg_buf[t], 0, 0)
PrologueWrites(t) ==
    IF cfg.kernel = "wmma_prefetch"
    THEN IF t < half_block(cfg) THEN RegStoreA(cfg, t, PrologueRegs(t), a_tiles(cfg, 0))
         ELSE RegStoreB(cfg, t, PrologueRegs(t), b_tiles(cfg, 0))
    ELSE IF t < half_block(cfg) THEN StageA(cfg, t, a_tiles(cfg, 0), 0, 0)
         ELSE StageB(cfg, t, b_tiles(cfg, 0), 0, 0)
PrologueReads(t) ==
    IF t < half_block(cfg) THEN ReadsA(cfg, t, 0, 0) ELSE ReadsB(cfg, t, 0, 0)

Prologue(w) ==
    /\ pc[w] = "prologue" /\ ~ atbar[w]
    /\ \E W \in {UNION {PrologueWrites(t) : t \in Lanes(cfg, w)}} :
          /\ lds' = Written(lds, W)
          /\ wlog' = wlog \cup {<<x[1], x[2]>> : x \in W}
    /\ reg_buf' = [t \in Threads(cfg) |->
                      IF t \in Lanes(cfg, w) THEN PrologueRegs(t) ELSE reg_buf[t]]
    /\ pc' = [pc EXCEPT ![w] = "load"]
    /\ atbar' = [atbar EXCEPT ![w] = TRUE]
    /\ syncs' = [syncs EXCEPT ![w] = Append(@, "prologue")]
    /\ UNCHANGED <<args, k_tile, cur, chunk_idx, c_frags, rlog,
                   C, cstores, run, C_first, host>>

\* Top of a K-step: the part of the next slice that is fetched before the MMAs.
LoadsA_before(t) ==
    IF cfg.kernel = "wmma_opt_2" THEN t >= half_block(cfg) ELSE t < half_block(cfg)
NextWrites(w, t) ==
    IF ~ has_next(w) \/ cfg.kernel = "wmma_prefetch" THEN {}
    ELSE IF LoadsA_before(t)
         THEN StageA(cfg, t, a_tiles(cfg, next_buf(w)), k_tile[w] + cfg.block_k,
                     next_check_k(cfg, k_tile[w]))
    ELSE IF cfg.kernel = "wmma_shared_warp_buf_vec"
         THEN StageB(cfg, t, b_tiles(cfg, next_buf(w)), k_tile[w] + cfg.block_k,
                     next_check_k(cfg, k_tile[w]))
    ELSE {}
NextRegs(w, t) ==
    IF ~ has_next(w) \/ cfg.kernel # "wmma_prefetch" THEN reg_buf[t]
    ELSE IF t < half_block(cfg)
         THEN RegLoadA(cfg, t, reg_buf[t], k_tile[w] + cfg.block_k, next_check_k(cfg, k_tile[w]))
    ELSE RegLoadB(cfg, t, reg_buf[t], k_tile[w] + cfg.block_k, next_check_k(cfg, k_tile[w]))
NextReads(w, t) ==
    IF ~ has_next(w) THEN {}
    ELSE IF LoadsA_before(t)
         THEN ReadsA(cfg, t, k_tile[w] + cfg.block_k, next_check_k(cfg, k_tile[w]))
    ELSE IF cfg.kernel # "wmma_opt_2"
         THEN ReadsB(cfg, t, k_tile[w] + cfg.block_k, next_check_k(cfg, k_tile[w]))
    ELSE {}

LoadNext(w) ==
    /\ pc[w] = "load" /\ ~ atbar[w] /\ k_tile[w] < K
    /\ \E W \in {UNION {NextWrites(w, t) : t \in Lanes(cfg, w)}} :
          /\ lds' = Written(lds, W)
          /\ wlog' = wlog \cup {<<x[1], x[2]>> : x \in W}
    /\ reg_buf' = [t \in Threads(cfg) |->
                      IF t \in Lanes(cfg, w) THEN NextRegs(w, t) ELSE reg_buf[t]]
    /\ pc' = [pc EXCEPT ![w] = "compute"]
    /\ UNCHANGED <<args, atbar, syncs, k_tile, cur, chunk_idx, c_frags,
                   rlog, C, cstores, run, C_first, host>>

\* The MMAs of one K-step on the current buffers.
Compute(w) ==
    /\ pc[w] = "compute" /\ ~ atbar[w]
    /\ c_frags' = [t \in Threads(cfg) |->
                      IF t \in Lanes(cfg, w)
                      THEN [x \in FragIdx(cfg) |->
                               MulTile(cfg, lds, a_tiles(cfg, cur[w]), b_tiles(cfg, cur[w]),
                                       t, x, c_frags[t][x], 0)]
                      ELSE c_frags[t]]
    /\ rlog' = rlog \cup UNION {{<<t, o>> : o \in FragReads(cfg, t, a_tiles(cfg, cur[w]),
                                                             b_tiles(cfg, cur[w]))} :
                                   t \in Lanes(cfg, w)}
    /\ pc' = [pc EXCEPT ![w] = "stage"]
    /\ UNCHANGED <<args, atbar, syncs, k_tile, cur, chunk_idx, reg_buf, lds,
                   wlog, C, cstores, run, C_first, host>>

\* Whether the K loop ends its iteration with __syncthreads.
\* (A plausible slip: the barrier at the end of the loop body left out.)
no_sync(c) == FALSE
loop_end_sync(c) == TRUE

\* The exchange of (current_a, current_b) with (next_a, next_b), on the index
\* of the buffer the current pair points to.
\* (A plausible slip: the pointers copied back to where they were.)
not_swapped(b) == b
swapped(b) == 1 - b

\* Bottom of a K-step: the rest of the next slice goes to the next buffer, the
\* tile pointers advance, current and next swap, __syncthreads.
LateWrites(w, t) ==
    IF ~ has_next(w) THEN {}
    ELSE IF cfg.kernel = "wmma_opt_2"
         THEN IF t < half_block(cfg)
              THEN StageB(cfg, t, b_tiles(cfg, next_buf(w)), k_tile[w] + cfg.block_k,
                          next_check_k(cfg, k_tile[w]))
              ELSE {}
    ELSE IF cfg.kernel = "wmma_prefetch"
         THEN IF t < half_block(cfg) THEN RegStoreA(cfg, t, reg_buf[t], a_tiles(cfg, next_buf(w)))
              ELSE RegStoreB(cfg, t, reg_buf[t], b_tiles(cfg, next_buf(w)))
    ELSE {}
LateReads(w, t) ==
    IF has_next(w) /\ cfg.kernel = "wmma_opt_2" /\ t < half_block(cfg)
    THEN ReadsB(cfg, t, k_tile[w] + cfg.block_k, next_check_k(cfg, k_tile[w]))
    ELSE {}

StageNext(w) ==
    /\ pc[w] = "stage" /\ ~ atbar[w]
    /\ \E W \in {UNION {LateWrites(w, t) : t \in Lanes(cfg, w)}} :
          /\ lds' = Written(lds, W)
          /\ wlog' = wlog \cup {<<x[1], x[2]>> : x \in W}
    /\ k_tile' = [k_tile EXCEPT ![w] = @ + cfg.block_k]
    /\ cur' = [cur EXCEPT ![w] = swapped(@)]
    /\ atbar' = [atbar EXCEPT ![w] = loop_end_sync(cfg)]
    /\ syncs' = [syncs EXCEPT ![w] = IF loop_end_sync(cfg) THEN Append(@, "loop") ELSE @]
    /\ pc' = [pc EXCEPT ![w] = "load"]
    /\ UNCHANGED <<args, chunk_idx, c_frags, reg_buf, rlog, C,
                   cstores, run, C_first, host>>

\* __syncthreads: every warp of the block has arrived.
Barrier ==
    /\ \A w \in Warps(cfg) : atbar[w]
    /\ atbar' = [w \in Warps(cfg) |-> FALSE]
    /\ rlog' = {} /\ wlog' = {}
    /\ UNCHANGED <<args, pc, syncs, k_tile, cur, chunk_idx, c_frags, reg_buf,
                   lds, C, cstores, run, C_first, host>>

\* Direct write-back of the fragments (wmma_shared_warp_buf_vec, wmma_prefetch,
\* wmma_shared).
Writeback(w) ==
    /\ cfg.kernel # "wmma_opt_2"
    /\ pc[w] = "load" /\ ~ atbar[w] /\ k_tile[w] >= K
    /\ \E rev \in BOOLEAN :
          \E S \in {WritebackStores(cfg, w, c_frags, rev)} :
             /\ C' = StoreAll(C, S)
             /\ cstores' = cstores \cup Issued(S)
    /\ pc' = [pc EXCEPT ![w] = "done"]
    /\ UNCHANGED <<args, atbar, syncs, k_tile, cur, chunk_idx, c_frags,
                   reg_buf, lds, rlog, wlog, run, C_first, host>>

\* wmma_opt_2, step 1 of a chunk: fragments to c_tile, then __syncthreads.
EpilogueFrags(w) ==
    /\ cfg.kernel = "wmma_opt_2"
    /\ ~ atbar[w]
    /\ (pc[w] = "load" /\ k_tile[w] >= K) \/ pc[w] = "epi_frags"
    /\ \E W \in {UNION {FragsToTile(cfg, t, c_frags, chunk_idx[w]) : t \in Lanes(cfg, w)}} :
          /\ lds' = Written(lds, W)
          /\ wlog' = wlog \cup {<<x[1], x[2]>> : x \in W}
    /\ pc' = [pc EXCEPT ![w] = "epi_store"]
    /\ atbar' = [atbar EXCEPT ![w] = TRUE]
    /\ syncs' = [syncs EXCEPT ![w] = Append(@, "frags")]
    /\ UNCHANGED <<args, k_tile, cur, chunk_idx, c_frags, reg_buf,
                   rlog, C, cstores, run, C_first, host>>

\* wmma_opt_2, step 2 of a chunk: c_tile to C, then __syncthreads.
EpilogueStore(w) ==
    /\ pc[w] = "epi_store" /\ ~ atbar[w]
    /\ \E rev \in BOOLEAN :
          \E S \in {TileStores(cfg, w, lds, chunk_idx[w], rev)} :
             /\ C' = StoreAll(C, S)
             /\ cstores' = cstores \cup Issued(S)
             /\ rlog' = rlog \cup {<<S[n].tid, S[n].src>> : n \in {m \in DOMAIN S : S[m].guard}}
    /\ chunk_idx' = [chunk_idx EXCEPT ![w] = @ + rows_per_chunk(cfg)]
    /\ pc' = [pc EXCEPT ![w] = IF chunk_idx[w] + rows_per_chunk(cfg) < cfg.block_m
                               THEN "epi_frags" ELSE "done"]
    /\ atbar' = [atbar EXCEPT ![w] = TRUE]
    /\ syncs' = [syncs EXCEPT ![w] = Append(@, "store")]
    /\ UNCHANGED <<args, k_tile, cur, c_frags, reg_buf, lds, wlog,
                   run, C_first, host>>

Next ==
    \/ \E w \in Warps(cfg) : Prologue(w)
    \/ \E w \in Warps(cfg) : LoadNext(w)
    \/ \E w \in Warps(cfg) : Compute(w)
    \/ \E w \in Warps(cfg) : StageNext(w)
    \/ \E w \in Warps(cfg) : Writeback(w)
    \/ \E w \in Warps(cfg) : EpilogueFrags(w)
    \/ \E w \in Warps(cfg) : EpilogueStore(w)
    \/ Barrier

Spec == Init /\ [][Next]_vars

Done == \A w \in Warps(cfg) : pc[w] = "done" /\ ~ atbar[w]

-----------------------------------------------------------------------------
(* One thread block of wmma_shared                                         *)

InitShared == InitOf({Reduced(config_s)}, {Poison})

\* Top of a K-step: the block loads the slice at k_tile, then __syncthreads.
LoadTile(w) ==
    /\ pc[w] = "load" /\ ~ atbar[w] /\ k_tile[w] < K
    /\ \E W \in {UNION {TileA(cfg, t, k_tile[w]) \cup TileB(cfg, t, k_tile[w]) :
                           t \in Lanes(cfg, w)}} :
          /\ lds' = Written(lds, W)
          /\ wlog' = wlog \cup {<<x[1], x[2]>> : x \in W}
    /\ pc' = [pc EXCEPT ![w] = "compute"]
    /\ atbar' = [atbar EXCEPT ![w] = TRUE]
    /\ syncs' = [syncs EXCEPT ![w] = Append(@, "tile")]
    /\ UNCHANGED <<args, k_tile, cur, chunk_idx, c_frags, reg_buf, rlog, C, cstores, run,
                   C_first, host>>

\* The MMAs on the tile, then __syncthreads and the next K-step.
ComputeTile(w) ==
    /\ pc[w] = "compute" /\ ~ atbar[w]
    /\ c_frags' = [t \in Threads(cfg) |->
                      IF t \in Lanes(cfg, w)
                      THEN [x \in FragIdx(cfg) |->
                               MulTile(cfg, lds, a_tiles(cfg, 0), b_tiles(cfg, 0),
                                       t, x, c_frags[t][x], 0)]
                      ELSE c_frags[t]]
    /\ rlog' = rlog \cup UNION {{<<t, o>> : o \in FragReads(cfg, t, a_tiles(cfg, 0),
                                                             b_tiles(cfg, 0))} :
                                   t \in Lanes(cfg, w)}
    /\ k_tile' = [k_tile EXCEPT ![w] = @ + cfg.block_k]
    /\ pc' = [pc EXCEPT ![w] = "load"]
    /\ atbar' = [atbar EXCEPT ![w] = TRUE]
    /\ syncs' = [syncs EXCEPT ![w] = Append(@, "mma")]
    /\ UNCHANGED <<args, cur, chunk_idx, reg_buf, lds, wlog, C, cstores, run, C_first, host>>

NextShared ==
    \/ \E w \in Warps(cfg) : LoadTile(w)
    \/ \E w \in Warps(cfg) : ComputeTile(w)
    \/ \E w \in Warps(cfg) : Writeback(w)
    \/ Barrier

SpecShared == InitShared /\ [][NextShared]_vars

-----------------------------------------------------------------------------
(* One thread block of wmma_naive                                          *)

InitNaive == InitOf({Reduced(config_n)}, {Poison})

\* ix, iy and the origin of the warp's tile of C.
c_row(c, t) ==
    ((blockIdx[1] * blockDim(c)[1] + threadIdx_x(c, t)) \div c.warp_size) * c.wmma_tile
c_col(c, t) == (blockIdx[2] * blockDim(c)[2] + threadIdx_y(c, t)) * c.wmma_tile

\* load_matrix<matrix_a, row_major>(a_frag, A, c_row, k, M, K) and
\* load_matrix<matrix_b, col_major>(b_frag, B, k, c_col, K, N) into fragments
\* that were zero-initialised.
\* The test load_matrix makes before it reads element i of a fragment: the
\* element's own row and column against the extents of the matrix.
\* (A plausible slip: the fragment's row or column tested, the element's
\* position along K not.)
element_inside_lane_only(offset, i, extent, depth) == offset < extent
element_inside(offset, i, extent, depth) == offset < extent /\ i < depth

\* Row and column of the elements lane t reads for its fragments.
a_offset(c, t) == c_row(c, t) + half_lane(c, t)
b_offset(c, t) == c_col(c, t) + half_lane(c, t)

load_matrix_a(c, t, k) ==
    [i \in 0 .. c.wmma_tile - 1 |->
        IF element_inside(a_offset(c, t), k + i, M, K)
        THEN LoadGlobalA(c, a_offset(c, t), k + i) ELSE Zero]
load_matrix_b(c, t, k) ==
    [i \in 0 .. c.wmma_tile - 1 |->
        IF element_inside(b_offset(c, t), k + i, N, K)
        THEN LoadGlobalB(c, k + i, b_offset(c, t)) ELSE Zero]

\* The addresses lane t reads from A and from B in the K-step at k.
NaiveReadsA(c, t, k) ==
    {AddrA(c, a_offset(c, t), k + i) :
        i \in {e \in 0 .. c.wmma_tile - 1 : element_inside(a_offset(c, t), k + e, M, K)}}
NaiveReadsB(c, t, k) ==
    {AddrB(c, k + i, b_offset(c, t)) :
        i \in {e \in 0 .. c.wmma_tile - 1 : element_inside(b_offset(c, t), k + e, N, K)}}

\* One iteration of the loop over the K tiles.
NaiveStep(w) ==
    /\ pc[w] = "load" /\ k_tile[w] < K
    /\ c_frags' = [t \in Threads(cfg) |->
                      IF t \in Lanes(cfg, w)
                      THEN [x \in FragIdx(cfg) |->
                               wmma_f16(cfg,
                                        [l \in Lanes(cfg, w) |-> load_matrix_a(cfg, l, k_tile[w])],
                                        [l \in Lanes(cfg, w) |-> load_matrix_b(cfg, l, k_tile[w])],
                                        c_frags[t][x], t, x[3])]
                      ELSE c_frags[t]]
    /\ k_tile' = [k_tile EXCEPT ![w] = @ + cfg.wmma_tile]
    /\ UNCHANGED <<args, pc, atbar, syncs, cur, chunk_idx, reg_buf, lds, rlog, wlog, C, cstores, run,
                   C_first, host>>

\* store_matrix(C, c_frag, c_row, c_col, M, N): the stores of warp w in program
\* order.  There is no guard.
store_matrix(c, w, frags, rev) ==
    [n \in 1 .. (c.wmma_tile \div 2) * c.warp_size |->
        LET q == n - 1
            t == LaneAt(c, w, q % c.warp_size, rev)
            i == q \div c.warp_size
            r == i * 2 + half_warp_id(c, t)
            offset == c_col(c, t) + half_lane(c, t)
        IN [tid   |-> t,
            guard |-> TRUE,
            addr  |-> (c_row(c, t) + r) * N + offset,
            row   |-> c_row(c, t) + r,
            col   |-> offset,
            val   |-> frags[t][<<0, 0, i>>]]]

NaiveStore(w) ==
    /\ pc[w] = "load" /\ k_tile[w] >= K
    /\ \E rev \in BOOLEAN :
          \E S \in {store_matrix(cfg, w, c_frags, rev)} :
             /\ C' = StoreAll(C, S)
             /\ cstores' = cstores \cup Issued(S)
    /\ pc' = [pc EXCEPT ![w] = "done"]
    /\ UNCHANGED <<args, atbar, syncs, k_tile, cur, chunk_idx, c_frags, reg_buf, lds, rlog, wlog,
                   run, C_first, host>>

NextNaive ==
    \/ \E w \in Warps(cfg) : NaiveStep(w)
    \/ \E w \in Warps(cfg) : NaiveStore(w)

SpecNaive == InitNaive /\ [][NextNaive]_vars

-----------------------------------------------------------------------------
(* The same launch twice                                                   *)

\* The shapes the relaunch is explored on: those of a single K-step.
OneStep(c) == {sh \in Shapes(c) : sh[3] <= c.block_k}

InitRelaunch ==
    /\ InitOf({Reduced(config_o2), Reduced(config_wbv), Reduced(config_p)}, Values)
    /\ <<M, N, K>> \in OneStep(cfg)

\* The kernel is launched again on the same A and B.  C keeps what the first
\* launch left in it; registers and shared memory hold whatever they hold.
Relaunch ==
    /\ run = 1 /\ Done
    /\ run' = 2 /\ C_first' = C /\ UNCHANGED host
    /\ junk' \in Values
    /\ pc' = [w \in Warps(cfg) |-> "prologue"]
    /\ atbar' = [w \in Warps(cfg) |-> FALSE]
    /\ syncs' = [w \in Warps(cfg) |-> <<>>]
    /\ k_tile' = [w \in Warps(cfg) |-> 0]
    /\ cur' = [w \in Warps(cfg) |-> 0]
    /\ chunk_idx' = [w \in Warps(cfg) |-> 0]
    /\ c_frags' = [t \in Threads(cfg) |-> [x \in FragIdx(cfg) |-> Zero]]
    /\ reg_buf' = [t \in Threads(cfg) |->
                      IF cfg.kernel = "wmma_prefetch" THEN [s \in RegSlots(cfg) |-> junk']
                      ELSE <<>>]
    /\ lds' = [o \in DOMAIN lds |-> junk']
    /\ rlog' = {} /\ wlog' = {} /\ cstores' = {}
    /\ UNCHANGED <<cfg, M, N, K, blockIdx, block_row, block_col, C>>

NextRelaunch == Next \/ Relaunch

SpecRelaunch == InitRelaunch /\ [][NextRelaunch]_vars

-----------------------------------------------------------------------------
(* Two configurations on the same inputs                                   *)

\* Shapes that every configuration covers with a single block: one element,
\* the shape that is a multiple of the MMA tile, of the vector and of every
\* block_k but smaller than the block tile (as M = N = K = 64 is for the
\* source's configurations), and a ragged one.
CrossShapes == {<<1, 1, 1>>, <<4, 4, 4>>, <<3, 4, 5>>}

InitCross ==
    /\ cfg = Reduced(config_s)
    /\ \E sh \in CrossShapes : M = sh[1] /\ N = sh[2] /\ K = sh[3]
    /\ blockIdx = <<0, 0>>
    /\ block_row = block_origin(cfg, blockIdx, M, N)[1]
    /\ block_col = block_origin(cfg, blockIdx, M, N)[2]
    /\ junk = Poison
    /\ Launch(cfg)
    /\ C = [a \in 0 .. M * N - 1 |-> junk]
    /\ run = 1 /\ C_first = <<>> /\ host = <<>>

\* wmma_shared has finished; another configuration is launched on the same A
\* and B, with C as it was before the first launch.
Switch ==
    /\ run = 1 /\ Done /\ cfg.kernel = "wmma_shared"
    /\ cfg' \in {Reduced(config_wbv), Reduced(config_p), Reduced(config_o2)}
    /\ run' = 2 /\ C_first' = C /\ UNCHANGED host
    /\ C' = [a \in DOMAIN C |-> junk]
    /\ block_row' = block_origin(cfg', blockIdx, M, N)[1]
    /\ block_col' = block_origin(cfg', blockIdx, M, N)[2]
    /\ pc' = [w \in Warps(cfg') |-> "prologue"]
    /\ atbar' = [w \in Warps(cfg') |-> FALSE]
    /\ syncs' = [w \in Warps(cfg') |-> <<>>]
    /\ k_tile' = [w \in Warps(cfg') |-> 0]
    /\ cur' = [w \in Warps(cfg') |-> 0]
    /\ chunk_idx' = [w \in Warps(cfg') |-> 0]
    /\ c_frags' = [t \in Threads(cfg') |-> [x \in FragIdx(cfg') |-> Zero]]
    /\ reg_buf' = [t \in Threads(cfg') |->
                      IF cfg'.kernel = "wmma_prefetch" THEN [s \in RegSlots(cfg') |-> junk]
                      ELSE <<>>]
    /\ lds' = [o \in 0 .. cfg'.buffers * cfg'.lds_size - 1 |-> junk]
    /\ rlog' = {} /\ wlog' = {} /\ cstores' = {}
    /\ UNCHANGED <<M, N, K, blockIdx, junk>>

NextCross ==
    \/ cfg.kernel = "wmma_shared" /\ NextShared
    \/ cfg.kernel \in DoubleBuffered /\ Next
    \/ Switch

SpecCross == InitCross /\ [][NextCross]_vars

-----------------------------------------------------------------------------
(* Every kernel on shapes that are multiples of its tiles                  *)

\* One block tile with one or two slices of K.
AlignedShapes(c) ==
    {<<c.block_m, c.block_n, c.block_k>>, <<c.block_m, c.block_n, 2 * c.block_k>>}

InitAligned ==
    /\ cfg \in {Reduced(config_n), Reduced(config_s), Reduced(config_wbv), Reduced(config_p),
                Reduced(config_o2)}
    /\ \E sh \in AlignedShapes(cfg) : M = sh[1] /\ N = sh[2] /\ K = sh[3]
    /\ blockIdx = <<0, 0>>
    /\ block_row = block_origin(cfg, blockIdx, M, N)[1]
    /\ block_col = block_origin(cfg, blockIdx, M, N)[2]
    /\ junk = Poison
    /\ Launch(cfg)
    /\ C = [a \in 0 .. M * N - 1 |-> junk]
    /\ run = 1 /\ C_first = <<>> /\ host = <<>>

NextAligned ==
    \/ cfg.kernel = "wmma_naive" /\ NextNaive
    \/ cfg.kernel = "wmma_shared" /\ NextShared
    \/ cfg.kernel \in DoubleBuffered /\ Next

SpecAligned == InitAligned /\ [][NextAligned]_vars

-----------------------------------------------------------------------------
(* Every kernel under a fair scheduler                                     *)

\* M and N from a single element to several blocks, K from a single element
\* to MaxKSteps slices.
DiagShapes(c) ==
    LET D  == Dims(c.block_m, c.vector_width)
        E  == Dims(c.block_n, c.vector_width)
        KS == KDims(c.block_k)
    IN {<<D[((i - 1) % Len(D)) + 1], E[((i - 1) % Len(E)) + 1], KS[i]>> : i \in DOMAIN KS}

\* The first block of every kernel.
InitAll ==
    /\ cfg \in {Reduced(config_o2), ReducedChunked(config_o2), Reduced(config_wbv),
                Reduced(config_p), Reduced(config_s), Reduced(config_n)}
    /\ \E sh \in DiagShapes(cfg) : M = sh[1] /\ N = sh[2] /\ K = sh[3]
    /\ blockIdx = <<0, 0>>
    /\ block_row = block_origin(cfg, blockIdx, M, N)[1]
    /\ block_col = block_origin(cfg, blockIdx, M, N)[2]
    /\ junk = Poison
    /\ Launch(cfg)
    /\ C = [a \in 0 .. M * N - 1 |-> junk]
    /\ run = 1 /\ C_first = <<>> /\ host = <<>>

\* A warp that can take a step is eventually scheduled; the block is done
\* when no warp has a step left.
SpecAll == InitAll /\ [][NextAligned]_vars /\ WF_vars(NextAligned)

-----------------------------------------------------------------------------
(* The grid of a launch                                                    *)

\* Every pairing of the dimensions of Dims, K a single element.
GridShapes(c) ==
    LET D == Dims(c.block_m, c.vector_width)
        E == Dims(c.block_n, c.vector_width)
    IN {<<D[i], E[j], 1>> : i \in DOMAIN D, j \in DOMAIN E}

InitGrid ==
    /\ cfg \in {Reduced(config_s), Reduced(config_wbv), Reduced(config_p), Reduced(config_o2),
                ReducedChunked(config_o2)}
    /\ \E sh \in GridShapes(cfg) : M = sh[1] /\ N = sh[2] /\ K = sh[3]
    /\ blockIdx = <<0, 0>>
    /\ block_row = block_origin(cfg, blockIdx, M, N)[1]
    /\ block_col = block_origin(cfg, blockIdx, M, N)[2]
    /\ junk = Poison
    /\ Launch(cfg)
    /\ C = [a \in 0 .. M * N - 1 |-> junk]
    /\ run = 1 /\ C_first = <<>> /\ host = <<>>

\* Another block of the grid the launcher asked for starts: the kernel derives
\* its origin from its blockIdx.
Dispatch ==
    /\ \E b \in Blocks(cfg, M, N) \ {blockIdx} :
          /\ blockIdx' = b
          /\ block_row' = block_origin(cfg, b, M, N)[1]
          /\ block_col' = block_origin(cfg, b, M, N)[2]
    /\ UNCHANGED <<cfg, M, N, K, junk, pc, atbar, syncs, k_tile, cur, chunk_idx, c_frags, reg_buf,
                   lds, rlog, wlog, C, cstores, run, C_first, host>>

SpecGrid == InitGrid /\ [][Dispatch]_vars

MaxGrid == 5   \* wmma_opt_2 launches of up to MaxGrid x MaxGrid blocks

\* wmma_opt_2 on every grid of up to MaxGrid x MaxGrid blocks, M and N exact
\* multiples of the block tile or one element past one.
InitHilbert ==
    /\ cfg = Reduced(config_o2)
    /\ \E gm \in 1 .. MaxGrid : M \in {(gm - 1) * cfg.block_m + 1, gm * cfg.block_m}
    /\ \E gn \in 1 .. MaxGrid : N \in {(gn - 1) * cfg.block_n + 1, gn * cfg.block_n}
    /\ K = 1
    /\ blockIdx = <<0, 0>>
    /\ block_row = block_origin(cfg, blockIdx, M, N)[1]
    /\ block_col = block_origin(cfg, blockIdx, M, N)[2]
    /\ junk = Poison
    /\ Launch(cfg)
    /\ C = [a \in 0 .. M * N - 1 |-> junk]
    /\ run = 1 /\ C_first = <<>> /\ host = <<>>

SpecHilbert == InitHilbert /\ [][Dispatch]_vars

-----------------------------------------------------------------------------
(* The configurations of the source at their own size                      *)

\* block_m, block_n and block_k as wmma_config<wmma_shared> gives them.
shared_block_m == 128
shared_block_n == 64
shared_block_k == 64

\* The kernels that have a wmma_config and a kernel body in the source, on the
\* pairings of M and N of GridShapes with K a single element or one slice.
InitSource ==
    /\ cfg \in SourceConfigs \ {config_n}
    /\ \E sh \in GridShapes(cfg) : M = sh[1] /\ N = sh[2]
    /\ K \in {1, cfg.block_k}
    /\ blockIdx = <<0, 0>>
    /\ block_row = block_origin(cfg, blockIdx, M, N)[1]
    /\ block_col = block_origin(cfg, blockIdx, M, N)[2]
    /\ junk = Poison
    /\ Launch(cfg)
    /\ C = [a \in 0 .. M * N - 1 |-> junk]
    /\ run = 1 /\ C_first = <<>> /\ host = <<>>

SpecSource == InitSource /\ [][Dispatch]_vars

-----------------------------------------------------------------------------
(* Host side: verify_results                                               *)

\* The kernel state, which the host-side functions do not touch.
kernel_vars == <<args, pc, atbar, syncs, k_tile, cur, chunk_idx, c_frags, reg_buf, lds, rlog,
                 wlog, C, cstores, run, C_first>>

NoKernel ==
    /\ cfg = Reduced(config_n) /\ M = 1 /\ N = 1 /\ K = 1
    /\ blockIdx = <<0, 0>> /\ block_row = 0 /\ block_col = 0
    /\ junk = Poison
    /\ Launch(cfg)
    /\ C = [a \in 0 .. M * N - 1 |-> junk]
    /\ run = 1 /\ C_first = <<>>

\* A float is a number, counted in units of 1e-7, or NaN.
Num(n) == [nan |-> FALSE, v |-> n]
NaN    == [nan |-> TRUE, v |-> 0]

\* Float arithmetic as verify_results uses it.  Every comparison with a NaN
\* is false; std::max(a, b) is (a < b) ? b : a.
f_sub(x, y)   == IF x.nan \/ y.nan THEN NaN ELSE Num(x.v - y.v)
f_abs(x)      == IF x.nan THEN NaN ELSE Num(IF x.v < 0 THEN - x.v ELSE x.v)
f_less(x, y)  == ~ x.nan /\ ~ y.nan /\ x.v < y.v
std_max(a, b) == IF f_less(a, b) THEN b ELSE a
\* A quotient is kept as numerator and denominator; the denominator is
\* positive wherever verify_results divides.
f_div(x, y)   == IF x.nan \/ y.nan THEN [nan |-> TRUE, n |-> 0, d |-> 1]
                 ELSE [nan |-> FALSE, n |-> x.v, d |-> y.v]
\* q > tol for a tolerance <<numerator, denominator>>.
f_greater(q, tol) == ~ q.nan /\ q.n * tol[2] > tol[1] * q.d

rel_floor == 100                   \* 1e-5f
default_tolerance == <<5, 100>>    \* 5e-2f
one == 100000 * rel_floor          \* 1.0

abs_diff(gpu_val, cpu_val) == f_abs(f_sub(gpu_val, cpu_val))
rel_diff(gpu_val, cpu_val) ==
    f_div(abs_diff(gpu_val, cpu_val), std_max(f_abs(cpu_val), Num(rel_floor)))

MaxDim == 2   \* matrices of up to MaxDim x MaxDim elements

Cells(rows, cols) == (0 .. rows - 1) \X (0 .. cols - 1)

\* Values around x: x itself, x off by exactly the default tolerance, x off by
\* one unit more, and NaN.
Near(x) ==
    LET d == (default_tolerance[1] * std_max(f_abs(Num(x)), Num(rel_floor)).v)
                 \div default_tolerance[2]
    IN {Num(x), Num(x + d), Num(x + d + 1), NaN}

\* verify_results(gpu_result, cpu_result, tolerance) is entered.
InitVerify ==
    /\ NoKernel
    /\ \E rows \in 1 .. MaxDim, cols \in 1 .. MaxDim, a \in {0, one}, b \in {0, one},
          tol \in {default_tolerance, <<0, 1>>} :
          \E cpu \in {[c \in Cells(rows, cols) |-> IF (c[1] + c[2]) % 2 = 0 THEN a ELSE b]} :
             \E gpu \in [Cells(rows, cols) -> UNION {Near(x) : x \in {a, b}}] :
                /\ \A c \in Cells(rows, cols) : gpu[c] \in Near(cpu[c])
                /\ host = [fn         |-> "verify_results",
                           gpu_result |-> gpu,
                           cpu_result |-> [c \in Cells(rows, cols) |-> Num(cpu[c])],
                           rows       |-> rows,
                           cols       |-> cols,
                           tolerance  |-> tol,
                           i          |-> 0,
                           j          |-> 0,
                           ret        |-> "running",
                           cerr       |-> <<>>,
                           cout       |-> <<>>]

\* One iteration of the inner loop: the element (i, j) is compared; a
\* difference above the tolerance is reported and ends the call with false.
VerifyElement ==
    /\ host.ret = "running" /\ host.i < host.rows
    /\ LET gpu_val == host.gpu_result[<<host.i, host.j>>]
           cpu_val == host.cpu_result[<<host.i, host.j>>]
           last    == host.j + 1 = host.cols
       IN host' = IF f_greater(rel_diff(gpu_val, cpu_val), host.tolerance)
                  THEN [host EXCEPT !.cerr = <<[i |-> host.i, j |-> host.j, GPU |-> gpu_val,
                                                CPU |-> cpu_val,
                                                rel_diff |-> rel_diff(gpu_val, cpu_val)]>>,
                                    !.ret = "false"]
                  ELSE [host EXCEPT !.i = IF last THEN @ + 1 ELSE @,
                                    !.j = IF last THEN 0 ELSE @ + 1]
    /\ UNCHANGED kernel_vars

\* Both loops have run out: "Verification passed", return true.
VerifyPassed ==
    /\ host.ret = "running" /\ host.i >= host.rows
    /\ host' = [host EXCEPT !.cout = <<"Verification passed">>, !.ret = "true"]
    /\ UNCHANGED kernel_vars

NextVerify == VerifyElement \/ VerifyPassed

SpecVerify == InitVerify /\ [][NextVerify]_vars

-----------------------------------------------------------------------------
(* Host side: the CPU reference                                            *)

\* matrix<half, L>: shape, layout tag and a contiguous buffer.  operator()(i, j)
\* is the element of the buffer at matrix_index.
matrix_index(L, rows, cols, i, j) ==
    IF L = "row_major" THEN i * cols + j ELSE j * rows + i

\* The buffer of a rows x cols matrix with layout L whose logical element
\* (i, j) is val[<<i, j>>]: a row-major buffer is filled row after row, a
\* column-major one column after column.
BufferOf(L, rows, cols, val) ==
    [p \in 0 .. rows * cols - 1 |->
        IF L = "row_major" THEN val[<<p \div cols, p % cols>>]
        ELSE val[<<p % rows, p \div rows>>]]

MatrixOf(L, rows, cols, val) ==
    [layout |-> L, rows |-> rows, cols |-> cols, data |-> BufferOf(L, rows, cols, val)]

\* m(i, j); an access outside the buffer has no defined value.
At(m, i, j) ==
    LET p == matrix_index(m.layout, m.rows, m.cols, i, j)
    IN IF p \in DOMAIN m.data THEN m.data[p] ELSE Poison

\* (A plausible slip: the inner loop runs over the rows of C.)
cpu_acc_k_rows(h, i, j) ==
    Dot([k \in 0 .. h.C.rows - 1 |-> At(h.A, i, k)],
        [k \in 0 .. h.C.rows - 1 |-> At(h.B, k, j)], h.C.rows)

\* acc after the loop over k < A.cols().
cpu_acc(h, i, j) ==
    Dot([k \in 0 .. h.A.cols - 1 |-> At(h.A, i, k)],
        [k \in 0 .. h.A.cols - 1 |-> At(h.B, k, j)], h.A.cols)

Layouts == {"row_major", "col_major"}

\* The logical elements of A and B are distinct indeterminates, numbered row
\* by row whatever the layout.
LogicalA(rows, inner) == [c \in Cells(rows, inner) |-> ElemA(c[1] * inner + c[2])]
LogicalB(inner, cols) == [c \in Cells(inner, cols) |-> ElemB(c[1] * cols + c[2])]

\* hgemm_cpu(C, A, B) is entered with C holding anything.
InitCpu ==
    /\ NoKernel
    /\ \E rows \in 1 .. MaxDim, cols \in 1 .. MaxDim, inner \in 1 .. MaxDim,
          L1 \in Layouts, L2 \in Layouts, L3 \in Layouts :
          host = [fn     |-> "hgemm_cpu",
                  C      |-> MatrixOf(L1, rows, cols, [c \in Cells(rows, cols) |-> Poison]),
                  A      |-> MatrixOf(L2, rows, inner, LogicalA(rows, inner)),
                  B      |-> MatrixOf(L3, inner, cols, LogicalB(inner, cols)),
                  i      |-> 0,
                  j      |-> 0,
                  writes |-> [p \in 0 .. rows * cols - 1 |-> 0],
                  ret    |-> "running"]

\* One iteration of the loop over j: acc is accumulated and stored to C(i, j).
CpuElement ==
    /\ host.fn = "hgemm_cpu" /\ host.ret = "running" /\ host.i < host.C.rows
    /\ LET p    == matrix_index(host.C.layout, host.C.rows, host.C.cols, host.i, host.j)
           last == host.j + 1 = host.C.cols
       IN host' = [host EXCEPT !.C.data[p] = cpu_acc(host, host.i, host.j),
                               !.writes[p] = @ + 1,
                               !.i = IF last THEN @ + 1 ELSE @,
                               !.j = IF last THEN 0 ELSE @ + 1]
    /\ UNCHANGED kernel_vars

CpuReturn ==
    /\ host.fn = "hgemm_cpu" /\ host.ret = "running" /\ host.i >= host.C.rows
    /\ host' = [host EXCEPT !.ret = "done"]
    /\ UNCHANGED kernel_vars

NextCpu == CpuElement \/ CpuReturn

SpecCpu == InitCpu /\ [][NextCpu]_vars

-----------------------------------------------------------------------------
(* What the kernels are to compute                                         *)

\* The coordinates in C of accumulator element x of thread t.
frag_row(c, t, x) ==
    block_row + warp_m_base(c, t) + x[1] * c.wmma_tile + 2 * x[3] + half_warp_id(c, t)
frag_col(c, t, x) ==
    block_col + warp_n_base(c, t) + x[2] * c.wmma_tile + half_lane(c, t)

\* sum over k < kd of A(i, k) * B(k, j), zero for a position outside C.
PartialSum(c, i, j, kd) ==
    IF i < M /\ j < N
    THEN [m \in {<<AddrA(c, i, k) + 1, AddrB(c, k, j) + 1>> :
                    k \in 0 .. (IF kd < K THEN kd ELSE K) - 1} |-> 1]
    ELSE Zero

\* How far along K warp w has accumulated.
k_done(w) == IF pc[w] = "stage" THEN k_tile[w] + cfg.block_k ELSE k_tile[w]

\* The elements of C that belong to the block's tile.
TileCells ==
    {<<i, j>> \in (block_row .. block_row + cfg.block_m - 1)
                     \X (block_col .. block_col + cfg.block_n - 1) : i < M /\ j < N}

\* The tiles of the launched blocks partition C.
TilesPartition ==
    \A i \in 0 .. M - 1 : \A j \in 0 .. N - 1 :
        Cardinality({b \in Blocks(cfg, M, N) :
                        LET o == block_origin(cfg, b, M, N)
                        IN /\ o[1] <= i /\ i < o[1] + cfg.block_m
                           /\ o[2] <= j /\ j < o[2] + cfg.block_n}) = 1

AtLaunch == \A w \in Warps(cfg) : pc[w] = "prologue" /\ ~ atbar[w]

\* Every store issued so far went to its element of C inside the block's tile,
\* and C holds the finished sum there and its prior contents elsewhere.
StoresCorrect ==
    /\ \A x \in cstores : <<x[3], x[4]>> \in TileCells /\ x[2] = x[3] * N + x[4]
    /\ \A a \in DOMAIN C :
          C[a] = IF \E x \in cstores : x[2] = a
                 THEN PartialSum(cfg, a \div N, a % N, K) ELSE junk

AllStored == {<<x[3], x[4]>> : x \in cstores} = TileCells

AccumulatorsCorrect ==
    \A t \in Threads(cfg) : \A x \in FragIdx(cfg) :
        c_frags[t][x]
            = PartialSum(cfg, frag_row(cfg, t, x), frag_col(cfg, t, x), k_done(warp_id(cfg, t)))

\* C1: wmma_opt_2 computes C = A * B for every shape, including ragged ones
\* and launches of several blocks, under every interleaving of the warps: at
\* every moment each accumulator holds the sum over the slices its warp has
\* processed, every element stored so far holds its finished sum at its own
\* address, nothing else of C is touched, and when the block is done every
\* element of its tile has been stored; the tiles of the grid partition C.
C1_Opt2Computes ==
    cfg.kernel = "wmma_opt_2" =>
        /\ AccumulatorsCorrect
        /\ StoresCorrect
        /\ Done => AllStored
        /\ AtLaunch => TilesPartition

\* C1 witness: a block of a multi-block launch on ragged M, N and K has finished
\* and stored a tile that ends at the matrix edge.
C1_Witness ==
    /\ cfg.kernel = "wmma_opt_2" /\ Done
    /\ M > cfg.block_m /\ N > cfg.block_n /\ K > cfg.block_k
    /\ block_row > 0 /\ block_col > 0
    /\ cstores # {}
    /\ \A a \in DOMAIN C : a = (M - 1) * N + (N - 1) => C[a] = PartialSum(cfg, M - 1, N - 1, K)

\* The slice at k_tile as the boundary policy stages it: the element where it
\* lies inside the matrix, zero elsewhere.
SliceA(c, kt, row, col) ==
    IF block_row + row < M /\ kt + col < K
    THEN ElemA(AddrA(c, block_row + row, kt + col)) ELSE Zero
SliceB(c, kt, row, col) ==
    IF kt + row < K /\ block_col + col < N
    THEN ElemB(AddrB(c, kt + row, block_col + col)) ELSE Zero

HoldsSlice(c, b, kt) ==
    /\ \A col \in 0 .. c.block_k - 1 : \A row \in 0 .. c.block_m - 1 :
          lds[a_tiles(c, b) + col * c.block_m + row] = SliceA(c, kt, row, col)
    /\ \A row \in 0 .. c.block_k - 1 : \A col \in 0 .. c.block_n - 1 :
          lds[b_tiles(c, b) + row * c.block_n + col] = SliceB(c, kt, row, col)

\* C2: the direct write-back of wmma_shared_warp_buf_vec and wmma_prefetch
\* issues a store only for an element whose true coordinates lie inside C, at
\* that element's address.
C2_WritebackInRange ==
    cfg.kernel \in {"wmma_shared_warp_buf_vec", "wmma_prefetch"} =>
        \A x \in cstores : x[3] < M /\ x[4] < N /\ x[2] = x[3] * N + x[4]

\* The global loads warp w issues in its next step.
PendingReads(w) ==
    IF atbar[w] THEN {}
    ELSE IF pc[w] = "prologue" THEN UNION {PrologueReads(t) : t \in Lanes(cfg, w)}
    ELSE IF pc[w] = "load" /\ k_tile[w] < K THEN UNION {NextReads(w, t) : t \in Lanes(cfg, w)}
    ELSE IF pc[w] = "stage" THEN UNION {LateReads(w, t) : t \in Lanes(cfg, w)}
    ELSE {}

ReadInRange(r) ==
    IF r[1] = "A" THEN r[2] < M /\ r[3] < K ELSE r[2] < K /\ r[3] < N

\* C3: every global load of the double-buffered kernels, in the prologue and
\* in each K-step, addresses an element inside A (row < M, k < K) or inside B
\* (k < K, col < N).
C3_LoadsInRange ==
    \A w \in Warps(cfg) : \A r \in PendingReads(w) : ReadInRange(r)

\* C4: in wmma_opt_2 and wmma_shared_warp_buf_vec, whenever a warp is about to
\* read the current buffer in the K-step at k_tile, the buffer holds exactly the
\* slice at k_tile, zero where the slice leaves the matrix.
C4_CurrentHoldsSlice ==
    cfg.kernel \in {"wmma_opt_2", "wmma_shared_warp_buf_vec"} =>
        \A w \in Warps(cfg) : pc[w] = "compute" => HoldsSlice(cfg, cur[w], k_tile[w])

\* C4 witness: in the second K-step of a ragged shape a warp is about to read
\* buffer 1 while another warp has already started refilling buffer 0 with the
\* third slice.
C4_Witness ==
    /\ cfg.kernel \in {"wmma_opt_2", "wmma_shared_warp_buf_vec"}
    /\ \E w \in Warps(cfg) :
          /\ pc[w] = "compute" /\ cur[w] = 1 /\ k_tile[w] = cfg.block_k
          /\ HoldsSlice(cfg, 1, k_tile[w])
    /\ K % cfg.block_k # 0 /\ M % cfg.vector_width # 0
    /\ wlog # {}

\* C5: wmma_prefetch stages, for every chunk of every slice, the elements that
\* lie inside the matrix and zero for the others; what a warp reads from the
\* current buffer never stems from an unwritten or left-over register.
C5_PrefetchStagesSlice ==
    cfg.kernel = "wmma_prefetch" =>
        \A w \in Warps(cfg) : pc[w] = "compute" => HoldsSlice(cfg, cur[w], k_tile[w])

\* C6: between two barriers no shared-memory location is written by one thread
\* and read or written by another.
C6_NoConflict ==
    /\ Cardinality({x[2] : x \in wlog}) = Cardinality(wlog)
    /\ \A y \in rlog : y[2] \in {x[2] : x \in wlog} => y \in wlog

\* C6 witness: in one barrier interval of a K-step some warps have filled their
\* part of the next buffer while others have read the current one.
C6_Witness ==
    /\ \E w \in Warps(cfg) : pc[w] = "stage" /\ k_tile[w] > 0
    /\ wlog # {} /\ rlog # {}
    /\ \E x \in wlog : \E y \in rlog : x[1] # y[1]
    /\ C6_NoConflict

\* C7: every element of C in range is stored by exactly one thread, and no
\* address of C is the target of two stores.
C7_StoredOnce ==
    cfg.kernel \in {"wmma_shared_warp_buf_vec", "wmma_opt_2", "wmma_shared"} =>
        /\ \A x \in cstores : \A y \in cstores : x[2] = y[2] => x = y
        /\ Done => \A e \in TileCells : \E x \in cstores : x[3] = e[1] /\ x[4] = e[2]

\* C8: a second launch of the same configuration on the same A, B, M, N, K
\* leaves in C exactly what the first launch left, whatever the schedule of
\* either launch and whatever registers and shared memory held before.
C8_SameResult ==
    run = 2 /\ Done => C = C_first

AtLaunchShared == \A w \in Warps(cfg) : pc[w] = "load" /\ k_tile[w] = 0 /\ ~ atbar[w]

C10_NaiveStoresInRange ==
    cfg.kernel = "wmma_naive" =>
        /\ \A x \in cstores : x[3] < M /\ x[4] < N
        /\ \A x \in cstores : \A y \in cstores : x[2] = y[2] => x = y

\* C11: on the same A and B, wmma_shared_warp_buf_vec, wmma_prefetch and
\* wmma_opt_2 leave in C exactly what wmma_shared leaves there.
C11_ConfigsAgree ==
    run = 2 /\ Done => C = C_first

\* The origins of the blocks of the launch.
Origins == {block_origin(cfg, b, M, N) : b \in Blocks(cfg, M, N)}

\* C12: the launcher starts ceil(M / block_m) * ceil(N / block_n) blocks (as a
\* 2-D grid, or as a 1-D grid for wmma_opt_2); the block that runs has its
\* origin inside C, on the block raster; every element of C lies in the tile of
\* exactly one launched block; and a tile extends past M (past N) only in the
\* last block row (column).
C12_GridCovers ==
    LET g == grid_dim(cfg, M, N)
        gm == Cardinality({o[1] : o \in Origins})
        gn == Cardinality({o[2] : o \in Origins})
    IN /\ (gm - 1) * cfg.block_m < M /\ M <= gm * cfg.block_m
       /\ (gn - 1) * cfg.block_n < N /\ N <= gn * cfg.block_n
       /\ g[1] * g[2] = gm * gn /\ Cardinality(Origins) = gm * gn
       /\ cfg.kernel = "wmma_opt_2" => g = <<gm * gn, 1>>
       /\ cfg.kernel # "wmma_opt_2" => g = <<gm, gn>>
       /\ 0 <= block_row /\ block_row < M /\ block_row % cfg.block_m = 0
       /\ 0 <= block_col /\ block_col < N /\ block_col % cfg.block_n = 0
       /\ TilesPartition
       /\ block_row + cfg.block_m > M => \A o \in Origins : o[1] <= block_row
       /\ block_col + cfg.block_n > N => \A o \in Origins : o[2] <= block_col

\* C12 witness: the last block of a 2 x 2 launch of wmma_opt_2 on ragged M and
\* N; its tile extends past both edges.
C12_Witness ==
    /\ cfg.kernel = "wmma_opt_2" /\ grid_dim(cfg, M, N) = <<4, 1>>
    /\ block_row > 0 /\ block_col > 0
    /\ block_row + cfg.block_m > M /\ block_col + cfg.block_n > N

\* The origins of the block raster of the grid.
GridOrigins ==
    {<<r * cfg.block_m, c * cfg.block_n>> :
        r \in 0 .. grid_m(cfg, M) - 1, c \in 0 .. grid_n(cfg, N) - 1}

\* C13: the mapping from tile ids to block origins of wmma_opt_2 is a bijection
\* from [0, grid_m * grid_n) onto the grid_m x grid_n block raster: no two ids
\* share an origin, every origin of the raster is produced, none lies outside
\* it; the block that runs has the origin of its own id.
C13_HilbertBijection ==
    cfg.kernel = "wmma_opt_2" =>
        /\ \E O \in {Origins} :
              /\ Cardinality(O) = Cardinality(Blocks(cfg, M, N))
              /\ O = GridOrigins
        /\ <<block_row, block_col>> \in GridOrigins
        /\ <<block_row, block_col>> = hilbert_tile_mapping(cfg, blockIdx[1], grid_m(cfg, M),
                                                          grid_n(cfg, N))

\* C13 witness: the last tile id of a 3 x 5 grid (neither a power of two, and
\* grid_m # grid_n) has been dispatched, away from the origin.
C13_Witness ==
    /\ cfg.kernel = "wmma_opt_2"
    /\ grid_m(cfg, M) = 3 /\ grid_n(cfg, N) = 5
    /\ blockIdx[1] = 14
    /\ block_row + block_col > 0

\* The coordinates in C of accumulator element x of thread t, for every kernel.
acc_row(c, t, x) ==
    IF c.kernel = "wmma_naive" THEN c_row(c, t) + 2 * x[3] + half_warp_id(c, t)
    ELSE frag_row(c, t, x)
acc_col(c, t, x) ==
    IF c.kernel = "wmma_naive" THEN c_col(c, t) + half_lane(c, t) ELSE frag_col(c, t, x)

\* The sum over k < kd of the products of the memory cells that hold A(i, k)
\* and B(k, j) when A is column-major and B row-major, and when A is row-major
\* and B column-major.
ColRowSum(i, j, kd) ==
    [m \in {<<(k * M + i) + 1, (k * N + j) + 1>> : k \in 0 .. (IF kd < K THEN kd ELSE K) - 1}
        |-> 1]
RowColSum(i, j, kd) ==
    [m \in {<<(i * K + k) + 1, (j * K + k) + 1>> : k \in 0 .. (IF kd < K THEN kd ELSE K) - 1}
        |-> 1]

\* Every store of an element inside C goes to its row-major address.
StoresRowMajor ==
    \A x \in cstores : x[3] < M /\ x[4] < N => x[2] = x[3] * N + x[4]

RECURSIVE Times(_, _)
Times(q, n) == IF n = 0 THEN <<>> ELSE q \o Times(q, n - 1)

ExpectedSyncs ==
    LET steps  == ceil_div(K, cfg.block_k)
        chunks == ceil_div(cfg.block_m, rows_per_chunk(cfg))
    IN IF cfg.kernel = "wmma_naive" THEN <<>>
       ELSE IF cfg.kernel = "wmma_shared" THEN Times(<<"tile", "mma">>, steps)
       ELSE <<"prologue">> \o Times(<<"loop">>, steps)
            \o (IF cfg.kernel = "wmma_opt_2" THEN Times(<<"frags", "store">>, chunks)
                ELSE <<>>)

IsPrefix(p, q) == Len(p) <= Len(q) /\ p = SubSeq(q, 1, Len(p))

BarrierSequence ==
    /\ \A w \in Warps(cfg) :
          /\ IsPrefix(syncs[w], ExpectedSyncs)
          /\ pc[w] = "done" /\ ~ atbar[w] => syncs[w] = ExpectedSyncs
    /\ \A w, v \in Warps(cfg) :
          atbar[w] => \/ syncs[v] = syncs[w]
                      \/ ~ atbar[v] /\ Len(syncs[v]) = Len(syncs[w]) - 1

\* C16: for every M, N, K >= 1 all threads of a block pass the same sequence
\* of barriers (one after the prologue and one per K-loop iteration; two per
\* iteration in wmma_shared; two more per epilogue chunk in wmma_opt_2), no
\* thread waits at a barrier that another thread of the block does not reach,
\* and every thread eventually leaves the kernel.
C16_Terminates == [] BarrierSequence /\ <> Done

\* C16 witness: a block of wmma_opt_2 with a two-chunk epilogue has finished
\* a K loop of three iterations after eight barriers.
C16_Witness ==
    /\ cfg = ReducedChunked(config_o2) /\ Done
    /\ ceil_div(K, cfg.block_k) = 3
    /\ \A w \in Warps(cfg) :
          syncs[w] = <<"prologue", "loop", "loop", "loop", "frags", "store", "frags", "store">>

\* Element c of the GPU result is within the tolerance of the reference.
Within(c) ==
    LET g == host.gpu_result[c]
        r == host.cpu_result[c]
        m == IF r.nan THEN 0 ELSE IF r.v < 0 THEN - r.v ELSE r.v
        d == IF g.v < r.v THEN r.v - g.v ELSE g.v - r.v
    IN /\ ~ g.nan /\ ~ r.nan
       /\ d * host.tolerance[2] <= host.tolerance[1] * (IF m < rel_floor THEN rel_floor ELSE m)

\* The cells that come before c when the matrix is scanned row by row.
Before(c) == {b \in DOMAIN host.gpu_result : b[1] < c[1] \/ (b[1] = c[1] /\ b[2] < c[2])}

\* C17: verify_results returns true exactly when every element is within the
\* tolerance, |gpu - cpu| / max(|cpu|, 1e-5) <= tolerance; otherwise it
\* returns false and reports the first element in row-major order that is
\* not.
C17_VerifyExact ==
    /\ host.ret = "true" =>
          /\ \A c \in DOMAIN host.gpu_result : Within(c)
          /\ host.cerr = <<>>
    /\ host.ret = "false" =>
          \E c \in DOMAIN host.gpu_result :
             /\ ~ Within(c) /\ \A b \in Before(c) : Within(b)
             /\ Len(host.cerr) = 1
             /\ host.cerr[1].i = c[1] /\ host.cerr[1].j = c[2]
             /\ host.cerr[1].GPU = host.gpu_result[c]
             /\ host.cerr[1].CPU = host.cpu_result[c]

\* The sum over k of A(i, k) * B(k, j) in terms of the logical elements.
LogicalProduct(i, j) ==
    [m \in {<<i * host.A.cols + k + 1, k * host.C.cols + j + 1>> : k \in 0 .. host.A.cols - 1}
        |-> 1]

\* The logical element (i, j) of C has been passed by the loops.
Passed(i, j) == i < host.i \/ (i = host.i /\ j < host.j)

\* C18: hgemm_cpu writes every C(i, j) exactly once, with the sum over
\* k < A.cols() of A(i, k) * B(k, j) taken on the logical elements, whatever
\* the layout tags of A, B and C are, and leaves A and B as they were.
C18_CpuReference ==
    /\ host.A = MatrixOf(host.A.layout, host.A.rows, host.A.cols,
                         LogicalA(host.A.rows, host.A.cols))
    /\ host.B = MatrixOf(host.B.layout, host.B.rows, host.B.cols,
                         LogicalB(host.B.rows, host.B.cols))
    /\ \A c \in Cells(host.C.rows, host.C.cols) :
          LET p == IF host.C.layout = "row_major" THEN c[1] * host.C.cols + c[2]
                   ELSE c[2] * host.C.rows + c[1]
          IN IF Passed(c[1], c[2])
             THEN host.writes[p] = 1 /\ host.C.data[p] = LogicalProduct(c[1], c[2])
             ELSE host.writes[p] = 0 /\ host.C.data[p] = Poison
    /\ host.ret = "done" => \A p \in DOMAIN host.writes : host.writes[p] = 1

\* C18 witness: hgemm_cpu has returned for a 2 x 2 product over an inner
\* dimension of 2 with A column-major, B row-major and C column-major.
C18_Witness ==
    /\ host.ret = "done"
    /\ host.C.rows = 2 /\ host.C.cols = 2 /\ host.A.cols = 2
    /\ host.A.layout = "col_major" /\ host.B.layout = "row_major"
    /\ host.C.layout = "col_major"
    /\ host.C.data[1] = LogicalProduct(1, 0)

\* The warp whose tiles hold row r, column c of the block tile.
Owns(w, r, c) ==
    LET t == w * cfg.warp_size
    IN /\ warp_m_base(cfg, t) <= r
       /\ r < warp_m_base(cfg, t) + cfg.warp_tile_m * cfg.wmma_tile
       /\ warp_n_base(cfg, t) <= c
       /\ c < warp_n_base(cfg, t) + cfg.warp_tile_n * cfg.wmma_tile

\* The fragment writes of the chunk at row_start that go to offset o of c_tile.
ChunkWriters(o, row_start) ==
    {x \in UNION {FragsToTile(cfg, t, c_frags, row_start) : t \in Threads(cfg)} : x[2] = o}

\* Warp w is about to write its fragments of a chunk to c_tile.
AtFragWrite(w) ==
    ~ atbar[w] /\ (pc[w] = "epi_frags" \/ (pc[w] = "load" /\ k_tile[w] >= K))
\* Warp w is about to read c_tile in the store step of a chunk.
AtTileRead(w) == ~ atbar[w] /\ pc[w] = "epi_store"

\* C19: the epilogue of wmma_opt_2 flushes the 256 x 256 tile through the
\* staging memory in two chunks of 128 = 2 * lds_size / block_n rows.  In each
\* chunk every element of c_tile the store step reads was written in the
\* fragment step of the same chunk by exactly one lane, of the warp that owns
\* it; every c_tile index is below 2 * lds_size; a barrier separates the
\* fragment writes from the reads and the reads from the writes of the next
\* chunk; and no warp writes to c_tile before all warps have done the last
\* staging reads of the K loop.
C19_ChunkedEpilogue ==
    cfg.kernel = "wmma_opt_2" =>
        /\ config_o2.block_m = 256 /\ config_o2.block_n = 256
        /\ rows_per_chunk(config_o2) = 128
        /\ rows_per_chunk(config_o2) = (2 * config_o2.lds_size) \div config_o2.block_n
        /\ rows_per_chunk(cfg) * cfg.block_n <= 2 * cfg.lds_size
        /\ \A w \in Warps(cfg) :
              /\ AtFragWrite(w) =>
                    /\ \A t \in Lanes(cfg, w) :
                          \A x \in FragsToTile(cfg, t, c_frags, chunk_idx[w]) :
                             0 <= x[2] /\ x[2] < 2 * cfg.lds_size
                    /\ \A v \in Warps(cfg) :
                          /\ k_tile[v] >= K /\ pc[v] \in {"load", "epi_frags", "epi_store"}
                          /\ chunk_idx[v] = chunk_idx[w]
                          /\ pc[v] = "epi_store" => atbar[v]
              /\ AtTileRead(w) =>
                    /\ \E S \in {TileStores(cfg, w, lds, chunk_idx[w], FALSE)} :
                          \A n \in DOMAIN S :
                             S[n].guard =>
                                /\ 0 <= S[n].src /\ S[n].src < 2 * cfg.lds_size
                                /\ \E W \in {ChunkWriters(S[n].src, chunk_idx[w])} :
                                      /\ Cardinality(W) = 1
                                      /\ \A x \in W :
                                            /\ lds[S[n].src] = x[3]
                                            /\ Owns(warp_id(cfg, x[1]),
                                                    S[n].row - block_row, S[n].col - block_col)
                    /\ \A v \in Warps(cfg) :
                          \/ pc[v] = "epi_store" /\ chunk_idx[v] = chunk_idx[w]
                          \/ /\ atbar[v] /\ pc[v] \in {"epi_frags", "done"}
                             /\ chunk_idx[v] = chunk_idx[w] + rows_per_chunk(cfg)
        /\ \A y \in rlog : \A x \in wlog : x[2] = y[2] => x[1] = y[1]

\* C19 witness: in the second of two chunks one warp has stored its part of
\* the chunk and waits at the barrier while another is about to read c_tile.
C19_Witness ==
    /\ cfg = ReducedChunked(config_o2)
    /\ rows_per_chunk(cfg) * 2 = cfg.block_m
    /\ \E w, v \in Warps(cfg) :
          /\ AtTileRead(w) /\ chunk_idx[w] = rows_per_chunk(cfg)
          /\ atbar[v] /\ pc[v] = "done"
    /\ rlog # {} /\ cstores # {}

\* The stores of the step warp w is about to take touch only elements of C,
\* a whole vector at once only where the whole vector lies inside C, element
\* by element exactly the columns below N otherwise, nothing in rows from M
\* on, and no element twice.
PendingTileStores(w) ==
    \E S \in {TileStores(cfg, w, lds, chunk_idx[w], FALSE)} :
       /\ \A n \in DOMAIN S :
             LET row_local == S[n].row - block_row - chunk_idx[w]
                 first_col == S[n].col - S[n].v
             IN /\ S[n].guard => /\ S[n].row < M /\ S[n].col < N
                                 /\ S[n].addr = S[n].row * N + S[n].col
                /\ row_local < chunk_height(cfg, chunk_idx[w]) =>
                      /\ S[n].guard = (S[n].row < M /\ S[n].col < N)
                      /\ S[n].vec = (S[n].row < M /\ first_col + cfg.vector_width - 1 < N)
                /\ S[n].vec => S[n].guard
                /\ S[n].guard => \A x \in cstores : x[2] # S[n].addr
       /\ \A n, m \in DOMAIN S :
             S[n].guard /\ S[m].guard /\ S[n].addr = S[m].addr => n = m

\* C20: the cooperative store of wmma_opt_2 writes C(r, c) only for r < M and
\* c < N: a whole vector only when r < M and c + vector_width - 1 < N, a vector
\* across the right edge element by element for exactly the columns below N,
\* nothing in rows r >= M; and every element of the block's tile that lies in
\* C is stored exactly once.
C20_StoreGuards ==
    cfg.kernel = "wmma_opt_2" =>
        /\ \A x \in cstores :
              /\ x[3] < M /\ x[4] < N /\ x[2] = x[3] * N + x[4]
              /\ <<x[3], x[4]>> \in TileCells
        /\ \A w \in Warps(cfg) : AtTileRead(w) => PendingTileStores(w)
        /\ Done => /\ {<<x[3], x[4]>> : x \in cstores} = TileCells
                   /\ Cardinality(cstores) = Cardinality(TileCells)

\* C20 witness: a warp is about to store a chunk in which one vector lies
\* across the right edge of C (some of its elements are stored one by one,
\* the others dropped), another vector is stored whole, and a row lies below
\* the bottom edge.
C20_Witness ==
    /\ cfg.kernel = "wmma_opt_2"
    /\ \E w \in Warps(cfg) :
          /\ AtTileRead(w)
          /\ \E S \in {TileStores(cfg, w, lds, chunk_idx[w], FALSE)} :
                /\ \E n, m \in DOMAIN S :
                      /\ S[n].guard /\ ~ S[n].vec
                      /\ ~ S[m].guard /\ S[m].row = S[n].row /\ S[m].col >= N
                      /\ S[m].col - S[m].v = S[n].col - S[n].v
                /\ \E n \in DOMAIN S : S[n].vec
                /\ \E n \in DOMAIN S : ~ S[n].guard /\ S[n].row >= M

\* The offsets of buffer b's A region and B region.
RegionA(b) == a_tiles(cfg, b) .. a_tiles(cfg, b) + cfg.block_m * cfg.block_k - 1
RegionB(b) == b_tiles(cfg, b) .. b_tiles(cfg, b) + cfg.block_k * cfg.block_n - 1

\* Every warp waits at the barrier that ends a load phase: the one after the
\* prologue, or the one at the end of a K-step that refilled a buffer.
LoadPhaseOver ==
    /\ \A w \in Warps(cfg) : atbar[w] /\ pc[w] = "load"
    /\ wlog # {}

\* The buffer the phase that is over has filled: buffer 0 in the prologue, and
\* the one that has just become current in a K-step.
Filled == cur[0]

\* The vectors thread t stages in a load phase (from the A or the B slice).
Chunks(t) ==
    {<<t, i>> : i \in VecIters(cfg, t, IF t < half_block(cfg) THEN cfg.block_m * cfg.block_k
                                       ELSE cfg.block_k * cfg.block_n)}

\* C21: in every load phase of wmma_opt_2 and wmma_shared_warp_buf_vec the
\* chunks written by different threads are disjoint and together cover every
\* offset of the A region and of the B region of the target buffer exactly
\* once, one half of the threads filling A and the other half B; the A and B
\* regions of the two buffers do not overlap and lie in the allocation.
C21_LoadPartition ==
    cfg.kernel \in {"wmma_opt_2", "wmma_shared_warp_buf_vec"} =>
        /\ RegionA(0) \cap RegionB(0) = {} /\ RegionA(1) \cap RegionB(1) = {}
        /\ (RegionA(0) \cup RegionB(0)) \cap (RegionA(1) \cup RegionB(1)) = {}
        /\ RegionA(0) \cup RegionB(0) \cup RegionA(1) \cup RegionB(1) = DOMAIN lds
        /\ LoadPhaseOver =>
              \E WA \in {{x \in wlog : x[2] \in RegionA(Filled)}},
                 WB \in {{x \in wlog : x[2] \in RegionB(Filled)}} :
                 /\ wlog = WA \cup WB
                 /\ {x[2] : x \in WA} = RegionA(Filled)
                 /\ {x[2] : x \in WB} = RegionB(Filled)
                 /\ Cardinality(WA) = Cardinality(RegionA(Filled))
                 /\ Cardinality(WB) = Cardinality(RegionB(Filled))
                 /\ \E TA \in {{x[1] : x \in WA}}, TB \in {{x[1] : x \in WB}} :
                       /\ TA \cap TB = {} /\ TA \cup TB = Threads(cfg)
                       /\ Cardinality(TA) = num_threads(cfg) \div 2
                       /\ Cardinality(TB) = num_threads(cfg) \div 2
                 /\ Cardinality(UNION {Chunks(t) : t \in Threads(cfg)}) * cfg.vector_width
                       = cfg.lds_size

\* C21 witness: the first K-step of wmma_opt_2 has refilled buffer 1 with the
\* second slice and every warp waits at the barrier that ends the step.
C21_Witness ==
    /\ cfg.kernel = "wmma_opt_2" /\ LoadPhaseOver
    /\ \A w \in Warps(cfg) : k_tile[w] = cfg.block_k /\ cur[w] = 1
    /\ {x[2] : x \in wlog} = RegionA(1) \cup RegionB(1)

\* The offsets of half b of the shared allocation.
Buffer(b) == b * cfg.lds_size .. (b + 1) * cfg.lds_size - 1

\* Warp w is in the K loop or at the barrier that precedes or ends one of its
\* iterations, and the index of the K-step it is in; the prologue counts as
\* the step before the first.
InKLoop(w) == pc[w] \in {"compute", "stage"} \/ (pc[w] = "load" /\ (atbar[w] \/ k_tile[w] < K))
StepOf(w)  == (k_tile[w] \div cfg.block_k) - (IF pc[w] = "load" /\ atbar[w] THEN 1 ELSE 0)

\* C22: in the double-buffered kernels the current pair and the next pair
\* designate the two distinct halves of the shared allocation, every thread
\* exchanges them exactly once per K iteration, and all threads agree in every
\* K-step: K-step i computes from buffer i mod 2 and its refill writes only
\* buffer (i + 1) mod 2.
C22_BuffersAlternate ==
    cfg.kernel \in DoubleBuffered =>
        /\ Buffer(0) \cap Buffer(1) = {} /\ Buffer(0) \cup Buffer(1) = DOMAIN lds
        /\ \A w \in Warps(cfg) :
              /\ cur[w] = (k_tile[w] \div cfg.block_k) % 2
              /\ k_tile[w] % cfg.block_k = 0
              /\ RegionA(cur[w]) \cup RegionB(cur[w]) = Buffer(cur[w])
              /\ RegionA(next_buf(w)) \cup RegionB(next_buf(w)) = Buffer(1 - cur[w])
              /\ InKLoop(w) =>
                    /\ \A v \in Warps(cfg) : InKLoop(v) => StepOf(v) = StepOf(w)
                    /\ \A x \in rlog : x[1] \in Lanes(cfg, w) => x[2] \in Buffer(StepOf(w) % 2)
                    /\ \A x \in wlog : x[1] \in Lanes(cfg, w)
                                          => x[2] \in Buffer((StepOf(w) + 1) % 2)
                    /\ pc[w] = "stage" =>
                          \A t \in Lanes(cfg, w) :
                             \A o \in FragReads(cfg, t, a_tiles(cfg, StepOf(w) % 2),
                                                b_tiles(cfg, StepOf(w) % 2)) : <<t, o>> \in rlog

\* C22 witness: K-step 1 of a kernel, whose MMAs have read buffer 1 while the
\* third slice has been written to buffer 0 and nowhere else.
C22_Witness ==
    /\ cfg.kernel \in DoubleBuffered
    /\ \E w \in Warps(cfg) :
          /\ pc[w] = "stage" /\ k_tile[w] = cfg.block_k /\ cur[w] = 1
          /\ \E x \in rlog : x[1] \in Lanes(cfg, w) /\ x[2] \in Buffer(1)
          /\ \E x \in wlog : x[2] \in Buffer(0)

\* The 16-wide sub-steps of one K-step and the MMA calls of one sub-step, as
\* the loops over k_offset, wm and wn issue them.
SubSteps(c) == {k \in 0 .. c.block_k - 1 : k % c.wmma_tile = 0}
MmaCalls(c) == (0 .. c.warp_tile_m - 1) \X (0 .. c.warp_tile_n - 1)

\* The number of MMA updates each accumulator of warp w has received.
Updates(w) == k_done(w) \div cfg.wmma_tile

\* The shared-memory offsets thread t has read since the last barrier.
ReadBy(t) == {x[2] : x \in {y \in rlog : y[1] = t}}

C24_NaiveLoadsChecked ==
    cfg.kernel = "wmma_naive" =>
        \A w \in Warps(cfg) :
           /\ pc[w] = "load" /\ k_tile[w] < K =>
                 \A t \in Lanes(cfg, w) :
                    /\ NaiveReadsA(cfg, t, k_tile[w]) \subseteq 0 .. M * K - 1
                    /\ NaiveReadsB(cfg, t, k_tile[w]) \subseteq 0 .. K * N - 1
                    /\ \A i \in 0 .. cfg.wmma_tile - 1 :
                          /\ load_matrix_a(cfg, t, k_tile[w])[i]
                                = IF a_offset(cfg, t) < M /\ k_tile[w] + i < K
                                  THEN ElemA(a_offset(cfg, t) * K + k_tile[w] + i) ELSE Zero
                          /\ load_matrix_b(cfg, t, k_tile[w])[i]
                                = IF b_offset(cfg, t) < N /\ k_tile[w] + i < K
                                  THEN ElemB(b_offset(cfg, t) * K + k_tile[w] + i) ELSE Zero
           /\ \A t \in Lanes(cfg, w) : \A x \in FragIdx(cfg) :
                 c_frags[t][x]
                    = IF acc_row(cfg, t, x) < M /\ acc_col(cfg, t, x) < N
                      THEN RowColSum(acc_row(cfg, t, x), acc_col(cfg, t, x), k_tile[w])
                      ELSE Zero

\* C24 witness: a warp of wmma_naive whose tile hangs over the edge of the
\* matrices has taken a K-step that ends beyond K: an accumulator inside C
\* holds exactly K products and one outside holds none.
C24_Witness ==
    /\ cfg.kernel = "wmma_naive" /\ K % cfg.wmma_tile # 0
    /\ \E w \in Warps(cfg) :
          /\ k_tile[w] > K
          /\ \E t \in Lanes(cfg, w) : \E x \in FragIdx(cfg) :
                acc_row(cfg, t, x) < M /\ acc_col(cfg, t, x) < N
                   /\ Cardinality(DOMAIN c_frags[t][x]) = K
          /\ \E t \in Lanes(cfg, w) : \E x \in FragIdx(cfg) :
                (acc_row(cfg, t, x) >= M \/ acc_col(cfg, t, x) >= N) /\ c_frags[t][x] = Zero

\* The element v of the vector at index i of the next slice, as thread t pulls
\* it from global memory at the top of the K-step of warp w.
Pulled(w, t, i, v) ==
    IF t < half_block(cfg)
    THEN LoadGlobalA(cfg, block_row + (i % cfg.block_m) + v,
                     k_tile[w] + cfg.block_k + (i \div cfg.block_m))
    ELSE LoadGlobalB(cfg, k_tile[w] + cfg.block_k + (i \div cfg.block_n),
                     block_col + (i % cfg.block_n) + v)

\* C25: in wmma_prefetch local_idx is always within a_reg_buf / b_reg_buf, and
\* the vector a thread copies to the next staging buffer after the MMAs of
\* K-step i is the vector of slice i + 1 the same thread pulled from global
\* memory before them.
C25_RegisterHandoff ==
    cfg.kernel = "wmma_prefetch" =>
        /\ \A t \in Threads(cfg) :
              \A i \in VecIters(cfg, t, cfg.block_m * cfg.block_k)
                          \cup VecIters(cfg, t, cfg.block_k * cfg.block_n) :
                 \A v \in 0 .. cfg.vector_width - 1 : <<local_idx(cfg, i), v>> \in RegSlots(cfg)
        /\ \A w \in Warps(cfg) :
              pc[w] = "stage" /\ has_next(w) =>
                 \A t \in Lanes(cfg, w) :
                    \A i \in VecIters(cfg, t, cfg.block_k * cfg.block_n) :
                       \A v \in 0 .. cfg.vector_width - 1 :
                          RegValue(reg_buf[t], <<local_idx(cfg, i), v>>) = Pulled(w, t, i, v)

-----------------------------------------------------------------------------
(* wmma_shared_warp_buf_vec and wmma_prefetch on tile-aligned shapes       *)

\* M and N whole numbers of block tiles, K a whole number of MMA tiles (which
\* for wmma_shared_warp_buf_vec need not be a whole number of slices).
TileAlignedShapes(c) ==
    {<<g * c.block_m, c.block_n, s * c.wmma_tile>> :
        <<g, s>> \in (1 .. MaxBlocks) \X (1 .. MaxKSteps)}
    \cup {<<c.block_m, g * c.block_n, s * c.wmma_tile>> :
             <<g, s>> \in (1 .. MaxBlocks) \X (1 .. MaxKSteps)}

InitTileAligned ==
    /\ cfg \in {Reduced(config_wbv), Reduced(config_p)}
    /\ \E sh \in TileAlignedShapes(cfg) : M = sh[1] /\ N = sh[2] /\ K = sh[3]
    /\ blockIdx \in Blocks(cfg, M, N)
    /\ block_row = block_origin(cfg, blockIdx, M, N)[1]
    /\ block_col = block_origin(cfg, blockIdx, M, N)[2]
    /\ junk = Poison
    /\ Launch(cfg)
    /\ C = [a \in 0 .. M * N - 1 |-> junk]
    /\ run = 1 /\ C_first = <<>> /\ host = <<>>

\* The steps of the kernels that write their fragments straight to C.
NextDirect ==
    \/ \E w \in Warps(cfg) : Prologue(w)
    \/ \E w \in Warps(cfg) : LoadNext(w)
    \/ \E w \in Warps(cfg) : Compute(w)
    \/ \E w \in Warps(cfg) : StageNext(w)
    \/ \E w \in Warps(cfg) : Writeback(w)
    \/ Barrier

SpecTileAligned == InitTileAligned /\ [][NextDirect]_vars

\* C26: on tile-aligned shapes wmma_shared_warp_buf_vec and wmma_prefetch
\* leave C[i*N + j] = sum over k of A[k*M + i] * B[k*N + j] for every element of
\* the block's tile, and neither read outside A or B nor store outside C.
C26_AlignedComputes ==
    /\ \A w \in Warps(cfg) : \A r \in PendingReads(w) :
          /\ ReadInRange(r)
          /\ IF r[1] = "A" THEN r[3] * M + r[2] \in 0 .. M * K - 1
             ELSE r[2] * N + r[3] \in 0 .. K * N - 1
    /\ \A x \in cstores : x[2] \in DOMAIN C /\ x[3] < M /\ x[4] < N /\ x[2] = x[3] * N + x[4]
    /\ \A a \in DOMAIN C :
          C[a] = IF \E x \in cstores : x[2] = a
                 THEN [m \in {<<(k * M + (a \div N)) + 1, (k * N + (a % N)) + 1>> : k \in 0 .. K - 1}
                          |-> 1]
                 ELSE junk
    /\ Done => {x[2] : x \in cstores}
                  = {i * N + j : <<i, j>> \in (block_row .. block_row + cfg.block_m - 1)
                                                 \X (block_col .. block_col + cfg.block_n - 1)}

\* C26 witness: a block other than the first of a wmma_prefetch launch that
\* runs several K-steps has finished and stored the last element of its tile.
C26_Witness ==
    /\ cfg.kernel = "wmma_prefetch" /\ Done
    /\ blockIdx # <<0, 0>> /\ K > 2 * cfg.block_k
    /\ \E x \in cstores : x[3] = block_row + cfg.block_m - 1 /\ x[4] = block_col + cfg.block_n - 1
                             /\ Cardinality(DOMAIN C[x[2]]) = K

\* The offset from the base of its matrix of the first element of the vector
\* that the full-vector read r belongs to.
VectorBase(r) ==
    IF r[1] = "A" THEN r[3] * M + r[2] - ((r[2] - block_row) % cfg.vector_width)
    ELSE r[2] * N + r[3] - ((r[3] - block_col) % cfg.vector_width)

\* C27: every full-vector global load of wmma_opt_2 and
\* wmma_shared_warp_buf_vec and every full-vector store of wmma_opt_2 is at an
\* element offset from the base of A, B or C that is a multiple of
\* vector_width, whatever M, N and K are.
C27_VectorsAligned ==
    cfg.kernel \in {"wmma_opt_2", "wmma_shared_warp_buf_vec"} =>
        \A w \in Warps(cfg) :
           /\ \A r \in PendingReads(w) : r[4] => VectorBase(r) % cfg.vector_width = 0
           /\ AtTileRead(w) =>
                 \E S \in {TileStores(cfg, w, lds, chunk_idx[w], FALSE)} :
                    \A n \in DOMAIN S :
                       S[n].vec /\ S[n].v = 0 => S[n].addr % cfg.vector_width = 0

-----------------------------------------------------------------------------
(* The int arithmetic of wmma_opt_2                                        *)

\* A non-negative integer of any size, as <<h, l>> for h * 2^16 + l with
\* l < 2^16; the value of an int expression before it is cut to 32 bits.
Limb   == 2 ^ 16
IntMax == (2 ^ 30 - 1) + 2 ^ 30
Wide(x)      == <<x \div Limb, x % Limb>>
WAdd(x, y)   == <<x[1] + y[1] + ((x[2] + y[2]) \div Limb), (x[2] + y[2]) % Limb>>
\* The product of two non-negative ints, limb by limb.
WMul(a, b)   ==
    LET a1 == a \div Limb
        a0 == a % Limb
        b1 == b \div Limb
        b0 == b % Limb
        x  == a0 * (b0 \div 2 ^ 8)
        y  == a0 * (b0 % 2 ^ 8)
    IN WAdd(<<a1 * b1 * Limb + a1 * b0 + a0 * b1 + (x \div 2 ^ 8), (x % 2 ^ 8) * 2 ^ 8>>,
            Wide(y))
\* Whether the value is what a signed 32-bit int holds, and what the int holds
\* after a wrap-around.
FitsInt(x)   == x[1] < 2 ^ 15
AsInt(x)     == LET h == x[1] % Limb
                IN (IF h >= 2 ^ 15 THEN h - Limb ELSE h) * Limb + x[2]

\* Launches with M*K, K*N and M*N below 2^31: small ragged sizes, sizes about
\* 2^26 and 2^27, and the largest int.
BigDims == {1, 17, 2 ^ 26, 2 ^ 27 + 1, IntMax}
BigShapes ==
    {sh \in BigDims \X BigDims \X BigDims :
        /\ sh[1] <= IntMax \div sh[3] /\ sh[3] <= IntMax \div sh[2]
        /\ sh[1] <= IntMax \div sh[2]}

\* The origins of the first and of the last block along a dimension.
EdgeOrigins(extent, blk) == {0, ((extent - 1) \div blk) * blk}

InitIndex ==
    /\ NoKernel
    /\ \E sh \in BigShapes :
          host = [fn |-> "hgemm_gpu<wmma_opt_2>", M |-> sh[1], N |-> sh[2], K |-> sh[3],
                  expr |-> "M", value |-> Wide(sh[1])]

Evaluated(e, x) ==
    /\ host' = [host EXCEPT !.expr = e, !.value = x]
    /\ UNCHANGED kernel_vars

\* (x + b - 1) / b in size_t, where the sum cannot wrap.
ceil_div_size_t(x, b) == (x \div b) + (IF x % b = 0 THEN 0 ELSE 1)

\* hgemm_gpu: total_blocks = grid_m * grid_n, and M, N, K passed as int.
HostLaunch ==
    \/ Evaluated("grid_m * grid_n",
                 WMul(ceil_div_size_t(host.M, config_o2.block_m),
                      ceil_div_size_t(host.N, config_o2.block_n)))
    \/ \E d \in {"N", "K"} : Evaluated(d, Wide(host[d]))

\* grid_m = (M + block_m - 1) / block_m and grid_n in the kernel, in int;
\* C_base = C + block_row * N + block_col.
KernelBase ==
    \/ Evaluated("M + block_m - 1", WAdd(Wide(host.M), Wide(config_o2.block_m - 1)))
    \/ Evaluated("N + block_n - 1", WAdd(Wide(host.N), Wide(config_o2.block_n - 1)))
    \/ \E br \in EdgeOrigins(host.M, config_o2.block_m),
          bc \in EdgeOrigins(host.N, config_o2.block_n) :
          Evaluated("block_row * N + block_col", WAdd(WMul(br, host.N), Wide(bc)))

\* The first and the last vector of the first, the second and the last column
\* (row) of the A (B) slice; block_m = block_n in config_o2.
CornerVectors ==
    {col * config_o2.block_m + row :
        <<col, row>> \in {0, 1, config_o2.block_k - 1}
                            \X {0, config_o2.block_m - config_o2.vector_width}}

\* gload = col * M + row (A) and row * N + col (B), computed for every vector
\* of the tile before the range test.
LoadIndex ==
    \E i \in CornerVectors :
       \/ Evaluated("col * M + row",
                    WAdd(WMul(i \div config_o2.block_m, host.M), Wide(i % config_o2.block_m)))
       \/ Evaluated("row * N + col",
                    WAdd(WMul(i \div config_o2.block_n, host.N), Wide(i % config_o2.block_n)))

\* A_tile_ptr += M * block_k; B_tile_ptr += N * block_k; at the end of every
\* iteration of the K loop.
AdvanceIndex ==
    \/ Evaluated("M * block_k", WMul(config_o2.block_k, host.M))
    \/ Evaluated("N * block_k", WMul(config_o2.block_k, host.N))

\* C_base[(row_start + row_local) * N + col_local], under row_global < M.
StoreIndex ==
    \E br \in EdgeOrigins(host.M, config_o2.block_m) :
       \E r \in {0, config_o2.block_m - 1} :
          \E col_local \in {0, config_o2.block_n - config_o2.vector_width} :
             /\ br + r < host.M
             /\ Evaluated("(row_start + row_local) * N + col_local",
                          WAdd(WMul(r, host.N), Wide(col_local)))

NextIndex == HostLaunch \/ KernelBase \/ LoadIndex \/ AdvanceIndex \/ StoreIndex

SpecIndex == InitIndex /\ [][NextIndex]_vars

\* C28: with M*K, K*N and M*N below 2^31, M, N and K as int and every index
\* expression wmma_opt_2 evaluates in int (col*M + row, row*N + col,
\* M*block_k, N*block_k, block_row*N + block_col, (row_start + row_local)*N
\* + col_local, grid_m*grid_n) stay within the signed 32-bit range.
C28_IndexInRange ==
    host # <<>> /\ host.fn = "hgemm_gpu<wmma_opt_2>" =>
        FitsInt(host.value) /\ AsInt(host.value) = host.value[1] * Limb + host.value[2]

\* C29: every fragment read of wmma_shared, wmma_shared_warp_buf_vec,
\* wmma_prefetch and wmma_opt_2 stays inside its region of the staging memory:
\* the A read offset (k_offset + i) * block_m + warp_m_base + wm * 16 +
\* half_lane is below block_m * block_k and the B read offset (k_offset + i) *
\* block_n + warp_n_base + wn * 16 + half_lane is below block_k * block_n, so
\* no read lands in the other region or the other buffer.
C29_FragmentReadsInRegion ==
    cfg.kernel \in DoubleBuffered \cup {"wmma_shared"} =>
        /\ (\A w \in Warps(cfg) : syncs[w] = <<>> /\ pc[w] \in {"prologue", "load"}) =>
              \A c \in {s \in SourceConfigs : s.kernel = cfg.kernel} :
                 \A t \in Threads(c) : \A ko \in SubSteps(c) : \A i \in 0 .. c.wmma_tile - 1 :
                    /\ \A wm \in 0 .. c.warp_tile_m - 1 :
                          a_frag_src(c, t, 0, ko, wm, i) \in 0 .. c.block_m * c.block_k - 1
                    /\ \A wn \in 0 .. c.warp_tile_n - 1 :
                          b_frag_src(c, t, 0, ko, wn, i) \in 0 .. c.block_k * c.block_n - 1
        /\ \A w \in Warps(cfg) :
           /\ pc[w] = "compute" =>
                 \A t \in Lanes(cfg, w) : \A ko \in SubSteps(cfg) : \A i \in 0 .. cfg.wmma_tile - 1 :
                    /\ \A wm \in 0 .. cfg.warp_tile_m - 1 :
                          \E o \in {a_frag_src(cfg, t, 0, ko, wm, i)} :
                             /\ o = (ko + i) * cfg.block_m + warp_m_base(cfg, t)
                                       + wm * cfg.wmma_tile + half_lane(cfg, t)
                             /\ o >= 0 /\ o < cfg.block_m * cfg.block_k
                             /\ a_tiles(cfg, cur[w]) + o \in RegionA(cur[w])
                    /\ \A wn \in 0 .. cfg.warp_tile_n - 1 :
                          \E o \in {b_frag_src(cfg, t, 0, ko, wn, i)} :
                             /\ o = (ko + i) * cfg.block_n + warp_n_base(cfg, t)
                                       + wn * cfg.wmma_tile + half_lane(cfg, t)
                             /\ o >= 0 /\ o < cfg.block_k * cfg.block_n
                             /\ b_tiles(cfg, cur[w]) + o \in RegionB(cur[w])
           /\ \E b \in {IF cfg.kernel = "wmma_shared" THEN 0 ELSE StepOf(w) % 2} :
                 \A x \in rlog :
                    x[1] \in Lanes(cfg, w) /\ (InKLoop(w) \/ cfg.kernel = "wmma_shared")
                       => x[2] \in RegionA(b) \cup RegionB(b)

\* C29 witness: in the second K-step of wmma_prefetch the last lane of the last
\* warp has read the last element of the B region of buffer 1, the last
\* element of the allocation.
C29_Witness ==
    /\ cfg.kernel = "wmma_prefetch"
    /\ \E w \in Warps(cfg) :
          /\ pc[w] = "stage" /\ cur[w] = 1
          /\ <<num_threads(cfg) - 1, 2 * cfg.lds_size - 1>> \in rlog
          /\ b_frag_src(cfg, num_threads(cfg) - 1, b_tiles(cfg, 1), cfg.block_k - cfg.wmma_tile,
                        cfg.warp_tile_n - 1, cfg.wmma_tile - 1) = 2 * cfg.lds_size - 1

\* The chunks of the threads T of configuration c: each starts a multiple of
\* vector_width into its tile and ends in the column of the A tile (row of the
\* B tile) it starts in.
ChunksInLine(c, T) ==
    /\ c.block_m % c.vector_width = 0 /\ c.block_n % c.vector_width = 0
    /\ \A t \in T :
          /\ \A i \in VecIters(c, t, c.block_m * c.block_k) :
                /\ (i % c.block_m) + c.vector_width - 1 < c.block_m
                /\ ((i \div c.block_m) * c.lds_stride_A + (i % c.block_m)) % c.vector_width = 0
          /\ \A i \in VecIters(c, t, c.block_k * c.block_n) :
                /\ (i % c.block_n) + c.vector_width - 1 < c.block_n
                /\ ((i \div c.block_n) * c.lds_stride_B + (i % c.block_n)) % c.vector_width = 0

\* The staging offsets thread t has written since the last barrier.
WrittenBy(t) == {x[2] : x \in {y \in wlog : y[1] = t}}

\* C30: in wmma_opt_2 and wmma_shared_warp_buf_vec every chunk a thread stages
\* lies within one column of the A tile or one row of the B tile and starts at
\* a staging offset that is a multiple of vector_width, so that gload + v,
\* v < vector_width, are consecutive elements of one column of A or one row of
\* B.
C30_ChunkInOneLine ==
    cfg.kernel \in {"wmma_opt_2", "wmma_shared_warp_buf_vec"} =>
        /\ ChunksInLine(cfg, Threads(cfg))
        /\ (\A w \in Warps(cfg) : pc[w] = "prologue") =>
              \A c \in {s \in SourceConfigs : s.kernel = cfg.kernel} :
                 ChunksInLine(c, {0, half_block(c) - 1, half_block(c), num_threads(c) - 1})
        /\ \A t \in Threads(cfg) :
              pc[warp_id(cfg, t)] \in {"load", "compute", "stage"} =>
                 \E Wt \in {WrittenBy(t)} :
                    \A o \in Wt :
                       \E base \in {o - (o % cfg.vector_width)} :
                          /\ \A v \in 0 .. cfg.vector_width - 1 : base + v \in Wt
                          /\ \A b \in {0, 1} :
                                /\ o \in RegionA(b) =>
                                      (base - a_tiles(cfg, b)) \div cfg.block_m
                                         = (base + cfg.vector_width - 1 - a_tiles(cfg, b))
                                              \div cfg.block_m
                                /\ o \in RegionB(b) =>
                                      (base - b_tiles(cfg, b)) \div cfg.block_n
                                         = (base + cfg.vector_width - 1 - b_tiles(cfg, b))
                                              \div cfg.block_n
        /\ \A w \in Warps(cfg) :
              \E P \in {PendingReads(w)} :
                 \A r \in P :
                    IF r[1] = "A"
                    THEN \E row \in {(r[2] - block_row)
                                        - ((r[2] - block_row) % cfg.vector_width)} :
                            /\ row + cfg.vector_width - 1 < cfg.block_m
                            /\ r[4] => \A v \in 0 .. cfg.vector_width - 1 :
                                          <<"A", block_row + row + v, r[3], TRUE>> \in P
                    ELSE \E col \in {(r[3] - block_col)
                                        - ((r[3] - block_col) % cfg.vector_width)} :
                            /\ col + cfg.vector_width - 1 < cfg.block_n
                            /\ r[4] => \A v \in 0 .. cfg.vector_width - 1 :
                                          <<"B", r[2], block_col + col + v, TRUE>> \in P

\* C30 witness: on a shape with M not a multiple of vector_width a thread of
\* wmma_shared_warp_buf_vec has staged, in the prologue, the chunk that ends
\* the first column of the A tile.
C30_Witness ==
    /\ cfg.kernel = "wmma_shared_warp_buf_vec" /\ M % cfg.vector_width # 0
    /\ \E t \in Threads(cfg) :
          /\ pc[warp_id(cfg, t)] = "load" /\ k_tile[warp_id(cfg, t)] = 0
          /\ \A v \in 0 .. cfg.vector_width - 1 :
                cfg.block_m - cfg.vector_width + v \in WrittenBy(t)

=============================================================================
